---- MODULE Spec2Model ----
(***************************************************************************)
(* A model of the facade of encode/databases (databases/core.py) over a    *)
(* command-issuing backend (databases/backends/mysql.py, sqlite.py).       *)
(*                                                                         *)
(* Tasks are asyncio tasks on one event loop.  A task runs without         *)
(* interruption until it awaits a driver call or a held asyncio.Lock; each *)
(* action of the model is one such uninterrupted run.  A task's position   *)
(* is its stack of frames, one per coroutine it is inside, each frame      *)
(* naming the await it is suspended on.                                    *)
(***************************************************************************)
EXTENDS Integers, Sequences, FiniteSets, TLC

\* ---- bounds of the model ------------------------------------------------
NTasks == 2
\* how deep the transaction stack of a connection gets
MaxDepth == 2
\* how many savepoints a session holds (ROLLBACK TO keeps its savepoint)
MaxSaves == 2
\* how many `async with` blocks a task nests
MaxScopes == 2
\* how high a connection counter gets
MaxCount == 3
\* how many Transaction objects user code creates
MaxTx == 2
\* how many driver calls fail (a driver error or a cancellation)
MaxFail == 1
\* how many distinct rows the queries insert
MaxRows == 2
\* how many queries one execute_many is given
MaxQueries == 3

Tasks == 1..NTasks
Rows == 1..MaxRows

\* The global connection of force-rollback mode; the connection a task
\* creates in Database.connection() is named after that task.
G == 0
Conns == {G} \cup Tasks
NoConn == -1
\* a task that has not been spawned yet has no context
NoTask == NoConn - 1
\* The global transaction of force-rollback mode; user Transaction objects
\* are numbered in order of creation.
GT == 0
Txs == {GT} \cup (1..MaxTx)
Free == 0

VARIABLES
    \* Database
    force_rollback,   \* Database._force_rollback
    is_connected,     \* Database.is_connected
    pool,             \* backend._pool: "down" (None), "up", "closing"
    ctx,              \* Database._connection_context, per task
    \* Connection (facade), per connection
    counter,          \* Connection._connection_counter
    clock,            \* Connection._connection_lock: Free or the holding task
    tlock,            \* Connection._transaction_lock
    stack,            \* Connection._transaction_stack
    raw,              \* backend connection: _connection is not None
    \* Transaction, per object
    txConn,           \* Transaction._connection (NoConn: not created yet)
    txForce,          \* Transaction._force_rollback
    is_root,          \* backend transaction _is_root
    savepoint_name,   \* backend transaction _savepoint_name (0 is "")
    nextTx,           \* the next Transaction object user code creates
    \* the SQL engine
    committed,        \* rows every session sees as durable
    sess,             \* per raw connection: its transaction state
    \* tasks
    frames,           \* per task: the coroutines it is suspended in
    scopes,           \* per task: the `async with` blocks it is inside
    exc,              \* per task: an exception is propagating in user code
    last,             \* per task: the facade call it made last, and its outcome
    \* what the claims are measured against
    broken,           \* per connection: which of its backend acquire() and
                      \* release() was the first to raise ("" while none has)
    ref,              \* per connection: the rows its frames ought to show
    fails,            \* driver calls that have failed so far
    \* streams
    gen,              \* per task: the async generator of Database.iterate
    \* the functions that touch no connection
    pure              \* the call under study: function, arguments, result

vars == <<force_rollback, is_connected, pool, ctx, counter, clock, tlock,
          stack, raw, txConn, txForce, is_root, savepoint_name, nextTx,
          committed, sess, frames, scopes, exc, last, broken, ref,
          fails, gen, pure>>

\* ---- the SQL engine, one session per raw connection ----------------------
\* mode "auto": no transaction is open (the pools hand out autocommit
\* connections); "tx": opened by BEGIN; "sp": opened by a SAVEPOINT.
\* own: the session's uncommitted rows; saves: its savepoints, oldest first.
Sess0 == [mode |-> "auto", own |-> {}, saves |-> <<>>]

EngineOk(se, cm) == [ok |-> TRUE, sess |-> se, committed |-> cm]
EngineError(se, cm) == [ok |-> FALSE, sess |-> se, committed |-> cm]

\* the position of the newest savepoint called n, 0 when there is none
FindSave(saves, n) ==
    LET hits == {i \in 1..Len(saves) : saves[i].name = n}
    IN IF hits = {} THEN 0 ELSE CHOOSE i \in hits : \A j \in hits : j <= i

EngBegin(se, cm) ==
    IF se.mode = "auto" THEN EngineOk([se EXCEPT !.mode = "tx"], cm)
    ELSE EngineError(se, cm)

EngCommit(se, cm) ==
    IF se.mode # "auto" THEN EngineOk(Sess0, cm \cup se.own)
    ELSE EngineError(se, cm)

EngRollback(se, cm) ==
    IF se.mode # "auto" THEN EngineOk(Sess0, cm)
    ELSE EngineError(se, cm)

EngSavepoint(se, cm, n) ==
    EngineOk([se EXCEPT !.mode = IF se.mode = "auto" THEN "sp" ELSE @,
                        !.saves = Append(@, [name |-> n, snap |-> se.own])], cm)

EngRelease(se, cm, n) ==
    LET i == FindSave(se.saves, n)
    IN IF i = 0 THEN EngineError(se, cm)
       ELSE IF i = 1 /\ se.mode = "sp" THEN EngineOk(Sess0, cm \cup se.own)
       ELSE EngineOk([se EXCEPT !.saves = SubSeq(@, 1, i - 1)], cm)

EngRollbackTo(se, cm, n) ==
    LET i == FindSave(se.saves, n)
    IN IF i = 0 THEN EngineError(se, cm)
       ELSE EngineOk([se EXCEPT !.own = se.saves[i].snap,
                                !.saves = SubSeq(@, 1, i)], cm)

EngInsert(se, cm, r) ==
    IF se.mode = "auto" THEN EngineOk(se, cm \cup {r})
    ELSE EngineOk([se EXCEPT !.own = @ \cup {r}], cm)

\* the rows a SELECT on the session returns
Visible(se, cm) == cm \cup se.own

\* one SQL command: [k |-> kind, n |-> savepoint name or row]
Engine(se, cm, cmd) ==
    CASE cmd.k = "BEGIN" -> EngBegin(se, cm)
      [] cmd.k = "COMMIT" -> EngCommit(se, cm)
      [] cmd.k = "ROLLBACK" -> EngRollback(se, cm)
      [] cmd.k = "SAVEPOINT" -> EngSavepoint(se, cm, cmd.n)
      [] cmd.k = "RELEASE" -> EngRelease(se, cm, cmd.n)
      [] cmd.k = "ROLLBACK TO" -> EngRollbackTo(se, cm, cmd.n)
      [] cmd.k = "INSERT" -> EngInsert(se, cm, cmd.n)

\* ---- the state the coroutines work on ------------------------------------
\* The coroutines below are functions from state to state: each runs a task
\* from where it is to its next suspension (or to its return).
Here ==
    [is_connected |-> is_connected, pool |-> pool,
     counter |-> counter, clock |-> clock, tlock |-> tlock, stack |-> stack,
     raw |-> raw, is_root |-> is_root, savepoint_name |-> savepoint_name,
     committed |-> committed, sess |-> sess,
     frames |-> frames, scopes |-> scopes, exc |-> exc, last |-> last,
     broken |-> broken, ref |-> ref, gen |-> gen]

Install(s) ==
    /\ is_connected' = s.is_connected
    /\ pool' = s.pool
    /\ counter' = s.counter
    /\ clock' = s.clock
    /\ tlock' = s.tlock
    /\ stack' = s.stack
    /\ raw' = s.raw
    /\ is_root' = s.is_root
    /\ savepoint_name' = s.savepoint_name
    /\ committed' = s.committed
    /\ sess' = s.sess
    /\ frames' = s.frames
    /\ scopes' = s.scopes
    /\ exc' = s.exc
    /\ last' = s.last
    /\ broken' = s.broken
    /\ ref' = s.ref
    /\ gen' = s.gen

NoCmd == [k |-> "", n |-> 0]

\* no stream has been asked for; no function is under study
NoStream ==
    [st |-> "none", c |-> NoConn, inner |-> "none", cursor |-> "none",
     left |-> 0, prior |-> 0]
NoFunction == [fn |-> "", args |-> <<>>, out |-> <<>>]

\* A frame: the coroutine fn of connection c / transaction x, suspended at
\* its await `at`; cmd is the driver call it awaits; root (is_root), res (the
\* pending result) and exc_type are its locals and arguments.
Frame(fn, at, c, x) ==
    [fn |-> fn, at |-> at, c |-> c, x |-> x, cmd |-> NoCmd,
     root |-> FALSE, res |-> "ok", exc_type |-> FALSE]

Top(s, t) == s.frames[t][Len(s.frames[t])]
Push(s, t, f) == [s EXCEPT !.frames[t] = Append(@, f)]
Pop(s, t) == [s EXCEPT !.frames[t] = SubSeq(@, 1, Len(@) - 1)]
At(s, t, label) == [s EXCEPT !.frames[t][Len(s.frames[t])].at = label]
Await(s, t, label, cmd) ==
    [s EXCEPT !.frames[t][Len(s.frames[t])].at = label,
              !.frames[t][Len(s.frames[t])].cmd = cmd]
\* what a facade call has asked of the backend so far ("acquire", "start",
\* "commit", ...), with "error" where the driver raised, "raise" where a
\* backend method raised by itself and "assert" where an assertion of the
\* facade failed
Log(s, t, e) == [s EXCEPT !.last[t].cmds = Append(@, e)]

\* The driver runs the awaited SQL command on the raw connection of c.
Execute(s, c, cmd) ==
    IF ~s.raw[c] THEN [ok |-> FALSE, s |-> s]
    ELSE LET r == Engine(s.sess[c], s.committed, cmd)
         IN [ok |-> r.ok,
             s |-> [s EXCEPT !.sess[c] = r.sess, !.committed = r.committed]]

\* a backend method raises on an assertion of its own or on what it finds
Raised(s, t) == Log(s, t, "raise")
\* the backend acquire() / release() of c raises under the connection lock
Broken(s, c, which) ==
    [s EXCEPT !.broken[c] = IF @ = "" THEN which ELSE @, !.clock[c] = Free]

\* The reference the data claims are measured against: vis, the rows the
\* connection ought to show; marks, vis as it was when each open frame began;
\* wrote, the rows that were ever asked to be written on the connection.
Ref0 == [vis |-> {}, marks |-> <<>>, wrote |-> {}]
RefInsert(s, c, r) ==
    [s EXCEPT !.ref[c].vis = @ \cup {r}, !.ref[c].wrote = @ \cup {r}]
RefStart(s, c) == [s EXCEPT !.ref[c].marks = Append(@, s.ref[c].vis)]
RefCommit(s, c) ==
    [s EXCEPT !.ref[c].marks = SubSeq(@, 1, Len(@) - 1)]
RefRollback(s, c) ==
    [s EXCEPT !.ref[c].vis = s.ref[c].marks[Len(s.ref[c].marks)],
              !.ref[c].marks = SubSeq(@, 1, Len(@) - 1)]

RECURSIVE Step(_, _, _)
RECURSIVE Ret(_, _, _)

\* a coroutine awaits another one
Call(s, t, label, f) == Step(Push(At(s, t, label), t, f), t, "ok")

\* ---- Connection (databases/core.py) --------------------------------------
\* (a variant with one connection lock for all the connections)
ReleaseEveryConnectionLock(s, c) == [s EXCEPT !.clock = [d \in Conns |-> Free]]
ReleaseConnectionLock(s, c) == [s EXCEPT !.clock[c] = Free]
\* (a variant that leaves the transaction lock held)
KeepTransactionLock(s, c) == s
ReleaseTransactionLock(s, c) == [s EXCEPT !.tlock[c] = Free]

\* backend acquire(): its assertions, then the await on the pool (a pool
\* that is closing refuses at once)
BackendAcquire(s, t, c) ==
    IF s.raw[c] \/ s.pool # "up"
    THEN Ret(Broken(Raised(s, t), c, "acquire"), t, "raise")
    ELSE Await(s, t, "acquire", [k |-> "acquire", n |-> 0])

\* backend release(): its assertions, then the await on the pool
BackendRelease(s, t, c) ==
    IF ~s.raw[c] \/ s.pool = "down"
    THEN Ret(Broken(Raised(s, t), c, "release"), t, "raise")
    ELSE Await(s, t, "release", [k |-> "release", n |-> 0])

AenterCounted(s, t, c) ==
    IF s.counter[c] = 1
    THEN BackendAcquire(Log(s, t, "acquire"), t, c)
    ELSE Ret(ReleaseConnectionLock(s, c), t, "ok")

Connection_aenter(s, t, ev) ==
    LET c == Top(s, t).c
    IN CASE Top(s, t).at = "lock" ->
              IF s.clock[c] # Free THEN s
              ELSE AenterCounted([s EXCEPT !.clock[c] = t,
                                           !.counter[c] = @ + 1], t, c)
         [] Top(s, t).at = "acquire" ->
              IF ev = "ok" /\ s.pool = "up" /\ Top(s, t).cmd.k = "acquire"
              THEN Ret([s EXCEPT !.raw[c] = TRUE, !.sess[c] = Sess0,
                                 !.clock[c] = Free], t, "ok")
              ELSE IF ev = "ok"
              THEN Ret(Broken(Raised(s, t), c, "acquire"), t, "raise")
              ELSE Ret(Broken(s, c, "acquire"), t, "raise")

\* (a variant that releases on every exit, whatever the counter)
AexitUncounted(s, t, c) == BackendRelease(Log(s, t, "release"), t, c)

AexitCounted(s, t, c) ==
    IF s.counter[c] = 0
    THEN BackendRelease(Log(s, t, "release"), t, c)
    ELSE Ret(ReleaseConnectionLock(s, c), t, "ok")

Connection_aexit(s, t, ev) ==
    LET c == Top(s, t).c
    IN CASE Top(s, t).at = "lock" ->
              IF s.clock[c] # Free THEN s
              ELSE AexitCounted([s EXCEPT !.clock[c] = t,
                                          !.counter[c] = @ - 1], t, c)
         [] Top(s, t).at = "release" ->
              IF ev = "ok"
              THEN Ret([s EXCEPT !.raw[c] = FALSE, !.sess[c] = Sess0,
                                 !.clock[c] = Free], t, "ok")
              ELSE Ret(Broken(s, c, "release"), t, "raise")

\* ---- Transaction (databases/core.py, backends/sqlite.py, mysql.py) -------
\* uuid.uuid4(): a name no transaction, session or pending command holds
\* (the least such number, so that equal states stay equal)
NamesInUse(s) ==
    {s.savepoint_name[x] : x \in Txs}
      \cup UNION {{s.sess[c].saves[i].name : i \in 1..Len(s.sess[c].saves)} : c \in Conns}
      \cup UNION {{s.frames[t][i].cmd.n : i \in 1..Len(s.frames[t])} : t \in Tasks}

Uuid4(s) == CHOOSE n \in 1..(Cardinality(NamesInUse(s)) + 1) :
                /\ n \notin NamesInUse(s)
                /\ \A m \in 1..(n - 1) : m \in NamesInUse(s)

\* backend start(is_root): BEGIN for a root frame, SAVEPOINT n otherwise
BackendStart(s, t, c, x, root) ==
    IF ~s.raw[c] THEN Ret(ReleaseTransactionLock(Raised(s, t), c), t, "raise")
    ELSE IF root
    THEN Await([s EXCEPT !.is_root[x] = TRUE], t, "start",
               [k |-> "BEGIN", n |-> 0])
    ELSE Await([s EXCEPT !.is_root[x] = FALSE,
                         !.savepoint_name[x] = Uuid4(s)], t, "start",
               [k |-> "SAVEPOINT", n |-> Uuid4(s)])

\* (a variant that commits every frame as if it were the root)
BackendCommitRoot(s, t, c, x) ==
    IF ~s.raw[c] THEN Ret(ReleaseTransactionLock(Raised(s, t), c), t, "raise")
    ELSE Await(s, t, "close", [k |-> "COMMIT", n |-> 0])

\* backend commit(): COMMIT for a root frame, RELEASE SAVEPOINT n otherwise
BackendCommit(s, t, c, x) ==
    IF ~s.raw[c] THEN Ret(ReleaseTransactionLock(Raised(s, t), c), t, "raise")
    ELSE IF s.is_root[x]
    THEN Await(s, t, "close", [k |-> "COMMIT", n |-> 0])
    ELSE Await(s, t, "close", [k |-> "RELEASE", n |-> s.savepoint_name[x]])

\* (a variant that rolls every frame back as if it were the root)
BackendRollbackRoot(s, t, c, x) ==
    IF ~s.raw[c] THEN Ret(ReleaseTransactionLock(Raised(s, t), c), t, "raise")
    ELSE Await(s, t, "close", [k |-> "ROLLBACK", n |-> 0])

\* backend rollback(): ROLLBACK for a root frame, ROLLBACK TO SAVEPOINT n
BackendRollback(s, t, c, x) ==
    IF ~s.raw[c] THEN Ret(ReleaseTransactionLock(Raised(s, t), c), t, "raise")
    ELSE IF s.is_root[x]
    THEN Await(s, t, "close", [k |-> "ROLLBACK", n |-> 0])
    ELSE Await(s, t, "close", [k |-> "ROLLBACK TO", n |-> s.savepoint_name[x]])

StartPushed(r, t, c, x) ==
    IF r.ok
    THEN Ret(ReleaseTransactionLock(
                 RefStart([r.s EXCEPT !.stack[c] = Append(@, x)], c), c), t, "ok")
    ELSE Ret(ReleaseTransactionLock(Raised(r.s, t), c), t, "raise")

Transaction_start(s, t, ev) ==
    LET c == Top(s, t).c
        x == Top(s, t).x
    IN CASE Top(s, t).at = "lock" ->
              IF s.tlock[c] # Free THEN s
              ELSE Call([s EXCEPT !.tlock[c] = t,
                           !.frames[t][Len(s.frames[t])].root =
                               (s.stack[c] = <<>>)],
                        t, "aenter", Frame("Connection.__aenter__", "lock", c, x))
         [] Top(s, t).at = "aenter" ->
              IF ev = "ok"
              THEN BackendStart(Log(s, t, "start"), t, c, x, Top(s, t).root)
              ELSE Ret(ReleaseTransactionLock(s, c), t, "raise")
         [] Top(s, t).at = "start" ->
              IF ev = "ok"
              THEN StartPushed(Execute(s, c, Top(s, t).cmd), t, c, x)
              ELSE Ret(ReleaseTransactionLock(s, c), t, "raise")

\* (a variant that accepts any frame of the stack)
IsOnStack(s, c, x) == \E i \in 1..Len(s.stack[c]) : s.stack[c][i] = x

\* the assertion of commit()/rollback(): the frame is the top of the stack
IsTop(s, c, x) == s.stack[c] # <<>> /\ s.stack[c][Len(s.stack[c])] = x

PopStack(s, c) == [s EXCEPT !.stack[c] = SubSeq(@, 1, Len(@) - 1)]

\* after the backend commit/rollback: await self._connection.__aexit__()
CloseExit(r, t, c, x) ==
    IF r.ok
    THEN Call(r.s, t, "aexit", Frame("Connection.__aexit__", "lock", c, x))
    ELSE Ret(ReleaseTransactionLock(Raised(r.s, t), c), t, "raise")

Transaction_commit(s, t, ev) ==
    LET c == Top(s, t).c
        x == Top(s, t).x
    IN CASE Top(s, t).at = "lock" ->
              IF s.tlock[c] # Free THEN s
              ELSE IF ~IsTop(s, c, x) THEN Ret(Log(s, t, "assert"), t, "raise")
              ELSE BackendCommit(
                       Log(PopStack([s EXCEPT !.tlock[c] = t], c), t, "commit"),
                       t, c, x)
         [] Top(s, t).at = "close" ->
              IF ev = "ok"
              THEN CloseExit(Execute(RefCommit(s, c), c, Top(s, t).cmd), t, c, x)
              ELSE Ret(ReleaseTransactionLock(s, c), t, "raise")
         [] Top(s, t).at = "aexit" ->
              Ret(ReleaseTransactionLock(s, c), t, ev)

Transaction_rollback(s, t, ev) ==
    LET c == Top(s, t).c
        x == Top(s, t).x
    IN CASE Top(s, t).at = "lock" ->
              IF s.tlock[c] # Free THEN s
              ELSE IF ~IsTop(s, c, x) THEN Ret(Log(s, t, "assert"), t, "raise")
              ELSE BackendRollback(
                       Log(PopStack([s EXCEPT !.tlock[c] = t], c), t, "rollback"),
                       t, c, x)
         [] Top(s, t).at = "close" ->
              IF ev = "ok"
              THEN CloseExit(Execute(RefRollback(s, c), c, Top(s, t).cmd), t, c, x)
              ELSE Ret(ReleaseTransactionLock(s, c), t, "raise")
         [] Top(s, t).at = "aexit" ->
              Ret(ReleaseTransactionLock(s, c), t, ev)

\* (a variant that forgets force_rollback)
Transaction_aexit_unforced(s, t, ev) ==
    LET c == Top(s, t).c
        x == Top(s, t).x
    IN CASE Top(s, t).at = "call" ->
              IF Top(s, t).exc_type
              THEN Call(s, t, "exit", Frame("Transaction.rollback", "lock", c, x))
              ELSE Call(s, t, "exit", Frame("Transaction.commit", "lock", c, x))
         [] Top(s, t).at = "exit" -> Ret(s, t, ev)

\* (a variant that commits whenever the block ends without an exception)
Transaction_aexit_commits(s, t, ev) ==
    LET c == Top(s, t).c
        x == Top(s, t).x
    IN CASE Top(s, t).at = "call" ->
              IF Top(s, t).exc_type /\ ~txForce[x]
              THEN Call(s, t, "exit", Frame("Transaction.rollback", "lock", c, x))
              ELSE Call(s, t, "exit", Frame("Transaction.commit", "lock", c, x))
         [] Top(s, t).at = "exit" -> Ret(s, t, ev)

\* Transaction.__aexit__: rollback on an exception or force_rollback
Transaction_aexit(s, t, ev) ==
    LET c == Top(s, t).c
        x == Top(s, t).x
    IN CASE Top(s, t).at = "call" ->
              IF Top(s, t).exc_type \/ txForce[x]
              THEN Call(s, t, "exit", Frame("Transaction.rollback", "lock", c, x))
              ELSE Call(s, t, "exit", Frame("Transaction.commit", "lock", c, x))
         [] Top(s, t).at = "exit" -> Ret(s, t, ev)

\* ---- Database (databases/core.py, backends/mysql.py) ---------------------
Database_connect(s, t, ev) ==
    CASE Top(s, t).at = "call" ->
           IF s.is_connected \/ s.pool # "down" THEN Ret(s, t, "raise")
           ELSE Await(s, t, "backend", [k |-> "connect", n |-> 0])
      [] Top(s, t).at = "backend" ->
           IF ev # "ok" THEN Ret(s, t, "raise")
           ELSE IF force_rollback
           THEN Call([s EXCEPT !.pool = "up", !.is_connected = TRUE], t,
                     "aenter", Frame("Transaction.start", "lock", G, GT))
           ELSE Ret([s EXCEPT !.pool = "up", !.is_connected = TRUE], t, "ok")
      [] Top(s, t).at = "aenter" -> Ret(s, t, ev)

\* pool.close(): the acquires that wait on the pool will fail
PoolClosed(s) ==
    [s EXCEPT !.pool = "closing",
              !.frames = [u \in Tasks |->
                  [i \in 1..Len(s.frames[u]) |->
                      IF s.frames[u][i].at = "acquire"
                      THEN [s.frames[u][i] EXCEPT !.cmd.k = "closed"]
                      ELSE s.frames[u][i]]]]

\* backend disconnect(): close the pool and wait for it
BackendDisconnect(s, t) ==
    IF s.pool = "down" THEN Ret(Raised(s, t), t, "raise")
    ELSE Await(PoolClosed(s), t, "backend", [k |-> "disconnect", n |-> 0])

\* (a variant that closes the pool without ending the global transaction)
Database_disconnect_unended(s, t, ev) ==
    CASE Top(s, t).at = "call" ->
           IF ~s.is_connected THEN Ret(s, t, "raise")
           ELSE BackendDisconnect(Log(s, t, "close"), t)
      [] Top(s, t).at = "backend" ->
           IF ev = "ok"
           THEN Ret([s EXCEPT !.pool = "down", !.is_connected = FALSE], t, "ok")
           ELSE Ret(s, t, "raise")

Database_disconnect(s, t, ev) ==
    CASE Top(s, t).at = "call" ->
           IF ~s.is_connected THEN Ret(s, t, "raise")
           ELSE IF force_rollback
           THEN Call(s, t, "aexit", Frame("Transaction.__aexit__", "call", G, GT))
           ELSE BackendDisconnect(Log(s, t, "close"), t)
      [] Top(s, t).at = "aexit" ->
           IF ev = "ok" THEN BackendDisconnect(Log(s, t, "close"), t)
           ELSE Ret(s, t, "raise")
      [] Top(s, t).at = "backend" ->
           IF ev = "ok"
           THEN Ret([s EXCEPT !.pool = "down", !.is_connected = FALSE], t, "ok")
           ELSE Ret(s, t, "raise")

\* leaving `async with self.connection()` with the query's outcome pending
ExecuteExit(s, t, c, res) ==
    Call([s EXCEPT !.frames[t][Len(s.frames[t])].res = res], t, "aexit",
         Frame("Connection.__aexit__", "lock", c, GT))

\* backend execute(): its assertion, then the await on the cursor
BackendExecute(s, t, c, r) ==
    IF ~s.raw[c] THEN ExecuteExit(Raised(s, t), t, c, "raise")
    ELSE Await(s, t, "query", [k |-> "INSERT", n |-> r])

ExecuteDone(r, t, c) ==
    IF r.ok THEN ExecuteExit(r.s, t, c, "ok")
    ELSE ExecuteExit(Raised(r.s, t), t, c, "raise")

\* (a variant that does not leave the connection when the query raises)
Database_execute_unscoped(s, t, ev) ==
    LET c == Top(s, t).c
    IN CASE Top(s, t).at = "call" ->
              Call(s, t, "aenter", Frame("Connection.__aenter__", "lock", c, GT))
         [] Top(s, t).at = "aenter" ->
              IF ev = "ok"
              THEN BackendExecute(Log(s, t, "execute"), t, c, Top(s, t).x)
              ELSE Ret(s, t, "raise")
         [] Top(s, t).at = "query" ->
              IF ev = "ok"
              THEN ExecuteDone(
                       Execute(RefInsert(s, c, Top(s, t).cmd.n), c, Top(s, t).cmd),
                       t, c)
              ELSE Ret(s, t, "raise")
         [] Top(s, t).at = "aexit" ->
              Ret(s, t, IF ev = "ok" THEN Top(s, t).res ELSE "raise")

\* Database.execute / fetch_all / ...: enter the connection, query, exit
Database_execute(s, t, ev) ==
    LET c == Top(s, t).c
    IN CASE Top(s, t).at = "call" ->
              Call(s, t, "aenter", Frame("Connection.__aenter__", "lock", c, GT))
         [] Top(s, t).at = "aenter" ->
              IF ev = "ok"
              THEN BackendExecute(Log(s, t, "execute"), t, c, Top(s, t).x)
              ELSE Ret(s, t, "raise")
         [] Top(s, t).at = "query" ->
              IF ev = "ok"
              THEN ExecuteDone(
                       Execute(RefInsert(s, c, Top(s, t).cmd.n), c, Top(s, t).cmd),
                       t, c)
              ELSE ExecuteExit(s, t, c, "raise")
         [] Top(s, t).at = "aexit" ->
              Ret(s, t, IF ev = "ok" THEN Top(s, t).res ELSE "raise")

\* ---- Database.iterate: three nested async generators ---------------------
\* Database.iterate (`async with self.connection()`), Connection.iterate and
\* the backend's iterate (the cursor and its try/finally).  gen[t] is the
\* stream of task t: st, the outer generator ("new": created and not started,
\* "open": suspended at its yield, "done"); inner, the backend's generator;
\* cursor, the driver cursor; left, the rows the query has yet to return;
\* prior, the connection counter as it was at the first pull.

\* the `finally` of the backend's iterate: await cursor.close()
CursorFinally(s, t, res) ==
    Await([s EXCEPT !.frames[t][Len(s.frames[t])].res = res], t,
          "cursor_close", NoCmd)

\* the backend's generator has ended: Database.iterate leaves its connection
IterateExit(s, t, c, res) ==
    ExecuteExit([s EXCEPT !.gen[t].inner = "finished"], t, c, res)

\* backend iterate() up to its first await
BackendIterate(s, t, c) ==
    IF ~s.raw[c] THEN IterateExit(Raised(s, t), t, c, "raise")
    ELSE Await([s EXCEPT !.gen[t].inner = "running"], t, "cursor", NoCmd)

Database_iterate(s, t, ev) ==
    LET c == Top(s, t).c
    IN CASE Top(s, t).at = "call" ->
              Call([s EXCEPT !.gen[t].c = c, !.gen[t].prior = s.counter[c]],
                   t, "aenter", Frame("Connection.__aenter__", "lock", c, GT))
         [] Top(s, t).at = "aenter" ->
              IF ev = "ok" THEN BackendIterate(Log(s, t, "iterate"), t, c)
              ELSE Ret([s EXCEPT !.gen[t].st = "done"], t, "raise")
         [] Top(s, t).at = "cursor" ->
              IF ev = "ok"
              THEN Await([s EXCEPT !.gen[t].cursor = "open"], t,
                         "cursor_execute", NoCmd)
              ELSE IterateExit(s, t, c, "raise")
         [] Top(s, t).at = "cursor_execute" ->
              IF ev = "ok" THEN Await(s, t, "fetch", NoCmd)
              ELSE CursorFinally(s, t, "raise")
         \* the consumer pulls again: the generators resume at their yields
         [] Top(s, t).at = "resume" ->
              Await([s EXCEPT !.gen[t].inner = "running"], t, "fetch", NoCmd)
         [] Top(s, t).at = "fetch" ->
              IF ev # "ok" THEN CursorFinally(s, t, "raise")
              ELSE IF s.gen[t].left = 0 THEN CursorFinally(s, t, "ok")
              ELSE Ret([s EXCEPT !.gen[t].left = @ - 1, !.gen[t].st = "open",
                                 !.gen[t].inner = "suspended"], t, "ok")
         [] Top(s, t).at = "cursor_close" ->
              IF ev = "ok"
              THEN IterateExit([s EXCEPT !.gen[t].cursor = "closed"], t, c,
                               Top(s, t).res)
              ELSE IterateExit(s, t, c, "raise")
         \* aclose(): GeneratorExit is raised at the yield of Database.iterate
         \* and leaves its `async for` and its `async with`; the generators
         \* below it stay suspended at their yields
         [] Top(s, t).at = "aclose" -> ExecuteExit(s, t, c, "ok")
         [] Top(s, t).at = "aexit" ->
              Ret([s EXCEPT !.gen[t].st = "done"], t,
                  IF ev = "ok" THEN Top(s, t).res ELSE "raise")

\* ---- running a task ------------------------------------------------------
\* The task's innermost coroutine goes on with ev: "ok" when what it awaits
\* has returned (or it has just been called), "raise" when it has raised.
Step(s, t, ev) ==
    CASE Top(s, t).fn = "Connection.__aenter__" -> Connection_aenter(s, t, ev)
      [] Top(s, t).fn = "Connection.__aexit__" -> Connection_aexit(s, t, ev)
      [] Top(s, t).fn = "Transaction.start" -> Transaction_start(s, t, ev)
      [] Top(s, t).fn = "Transaction.commit" -> Transaction_commit(s, t, ev)
      [] Top(s, t).fn = "Transaction.rollback" -> Transaction_rollback(s, t, ev)
      [] Top(s, t).fn = "Transaction.__aexit__" -> Transaction_aexit(s, t, ev)
      [] Top(s, t).fn = "Database.connect" -> Database_connect(s, t, ev)
      [] Top(s, t).fn = "Database.disconnect" -> Database_disconnect(s, t, ev)
      [] Top(s, t).fn = "Database.execute" -> Database_execute(s, t, ev)
      [] Top(s, t).fn = "Database.iterate" -> Database_iterate(s, t, ev)

\* The call user code made has returned or raised: an `async with` block is
\* entered when its __aenter__ returned; an exception propagates in user code.
Returned(s, t, res) ==
    [s EXCEPT !.last[t].res = res,
              !.exc[t] = s.last[t].excIn \/ res = "raise",
              !.scopes[t] =
                  IF res = "ok" /\ s.last[t].op = "conn_enter"
                  THEN Append(@, [k |-> "conn", id |-> s.last[t].c])
                  ELSE IF res = "ok" /\ s.last[t].op = "tx_enter"
                  THEN Append(@, [k |-> "tx", id |-> s.last[t].x])
                  ELSE @]

\* a coroutine returns to the one awaiting it, or to user code
Ret(s, t, res) ==
    IF Len(s.frames[t]) = 1 THEN Returned(Pop(s, t), t, res)
    ELSE Step(Pop(s, t), t, res)

\* user code of task t calls a coroutine of the facade
Called(op, c, x, excIn) ==
    [op |-> op, c |-> c, x |-> x, res |-> "run", cmds |-> <<>>, excIn |-> excIn]

Begin(t, op, f, excIn) ==
    Step(Push([Here EXCEPT !.last[t] = Called(op, f.c, f.x, excIn)], t, f),
         t, "ok")

\* ---- user code -----------------------------------------------------------
Idle(t) == ctx[t] # NoTask /\ frames[t] = <<>>
CanCall(t) == Idle(t) /\ ~exc[t]
\* the bounds of the model on what user code asks for
CanEnter(c) == counter[c] < MaxCount
CanStart(c) ==
    /\ counter[c] < MaxCount
    /\ Len(stack[c]) < MaxDepth
    /\ Len(sess[c].saves) < MaxSaves
CanNest(t) == Len(scopes[t]) < MaxScopes

\* (a variant that keeps one connection for the whole Database)
ConnectionShared(t) == IF force_rollback THEN G ELSE 1

\* (a variant that builds a Connection without looking at the context)
ConnectionFresh(t) == IF force_rollback THEN G ELSE t

\* Database.connection()
ConnectionOf(t) ==
    IF force_rollback THEN G
    ELSE IF ctx[t] # NoConn THEN ctx[t]
    ELSE t

Resolved(t) ==
    ctx' = IF force_rollback THEN ctx ELSE [ctx EXCEPT ![t] = ConnectionOf(t)]

Connect(t) ==
    /\ CanCall(t) /\ CanStart(G)
    /\ Install(Begin(t, "connect", Frame("Database.connect", "call", NoConn, GT), FALSE))
    /\ UNCHANGED <<force_rollback, ctx, txConn, txForce, nextTx, fails, pure>>

Disconnect(t) ==
    /\ CanCall(t)
    /\ Install(Begin(t, "disconnect",
                     Frame("Database.disconnect", "call", NoConn, GT), FALSE))
    /\ UNCHANGED <<force_rollback, ctx, txConn, txForce, nextTx, fails, pure>>

\* await database.execute(<insert row r>)
OneShot(t, r) ==
    /\ CanCall(t) /\ CanEnter(ConnectionOf(t))
    /\ Install(Begin(t, "execute",
                     Frame("Database.execute", "call", ConnectionOf(t), r), FALSE))
    /\ Resolved(t)
    /\ UNCHANGED <<force_rollback, txConn, txForce, nextTx, fails, pure>>

\* async with database.connection():
ConnEnter(t) ==
    /\ CanCall(t) /\ CanEnter(ConnectionOf(t)) /\ CanNest(t)
    /\ Install(Begin(t, "conn_enter",
                     Frame("Connection.__aenter__", "lock", ConnectionOf(t), GT),
                     FALSE))
    /\ Resolved(t)
    /\ UNCHANGED <<force_rollback, txConn, txForce, nextTx, fails, pure>>

\* await connection.__aexit__(), called by hand outside any `async with` block
ConnExit(t) ==
    /\ CanCall(t) /\ counter[ConnectionOf(t)] > 0 - MaxCount
    /\ Install(Begin(t, "conn_aexit",
                     Frame("Connection.__aexit__", "lock", ConnectionOf(t), GT),
                     FALSE))
    /\ Resolved(t)
    /\ UNCHANGED <<force_rollback, txConn, txForce, nextTx, fails, pure>>

\* transaction = database.transaction(force_rollback=f)
NewTransaction(t, f) ==
    /\ Idle(t) /\ ~exc[t]
    /\ nextTx <= MaxTx
    /\ txConn' = [txConn EXCEPT ![nextTx] = ConnectionOf(t)]
    /\ txForce' = [txForce EXCEPT ![nextTx] = f]
    /\ nextTx' = nextTx + 1
    /\ Resolved(t)
    /\ UNCHANGED <<force_rollback, is_connected, pool, counter, clock, tlock,
                   stack, raw, is_root, savepoint_name, committed, sess,
                   frames, scopes, exc, last, broken, ref, fails, gen, pure>>

Created(x) == x # GT /\ txConn[x] # NoConn

\* async with transaction:
TxEnter(t, x) ==
    /\ CanCall(t) /\ Created(x) /\ CanStart(txConn[x]) /\ CanNest(t)
    /\ Install(Begin(t, "tx_enter",
                     Frame("Transaction.start", "lock", txConn[x], x), FALSE))
    /\ UNCHANGED <<force_rollback, ctx, txConn, txForce, nextTx, fails, pure>>

\* await transaction  /  await transaction.start()
TxStart(t, x) ==
    /\ CanCall(t) /\ Created(x) /\ CanStart(txConn[x])
    /\ Install(Begin(t, "start",
                     Frame("Transaction.start", "lock", txConn[x], x), FALSE))
    /\ UNCHANGED <<force_rollback, ctx, txConn, txForce, nextTx, fails, pure>>

TxCommit(t, x) ==
    /\ CanCall(t) /\ Created(x)
    /\ Install(Begin(t, "commit",
                     Frame("Transaction.commit", "lock", txConn[x], x), FALSE))
    /\ UNCHANGED <<force_rollback, ctx, txConn, txForce, nextTx, fails, pure>>

TxRollback(t, x) ==
    /\ CanCall(t) /\ Created(x)
    /\ Install(Begin(t, "rollback",
                     Frame("Transaction.rollback", "lock", txConn[x], x), FALSE))
    /\ UNCHANGED <<force_rollback, ctx, txConn, txForce, nextTx, fails, pure>>

LeaveScope(s, t) == [s EXCEPT !.scopes[t] = SubSeq(@, 1, Len(@) - 1)]

ExitFrame(sc, excIn) ==
    IF sc.k = "conn" THEN Frame("Connection.__aexit__", "lock", sc.id, GT)
    ELSE [Frame("Transaction.__aexit__", "call", txConn[sc.id], sc.id)
            EXCEPT !.exc_type = excIn]

\* The innermost `async with` block of the task ends, normally or with the
\* exception that is propagating: its __aexit__ is awaited.
ScopeExit(t) ==
    /\ Idle(t) /\ scopes[t] # <<>>
    /\ LET sc == scopes[t][Len(scopes[t])]
           f == ExitFrame(sc, exc[t])
           s0 == LeaveScope(
                     [Here EXCEPT !.last[t] =
                          Called(IF sc.k = "conn" THEN "conn_exit" ELSE "tx_exit",
                                 f.c, f.x, exc[t])], t)
       IN Install(Step(Push(s0, t, f), t, "ok"))
    /\ UNCHANGED <<force_rollback, ctx, txConn, txForce, nextTx, fails, pure>>

\* the body of an `async with` block raises
UserRaise(t) ==
    /\ Idle(t) /\ ~exc[t] /\ scopes[t] # <<>>
    /\ exc' = [exc EXCEPT ![t] = TRUE]
    /\ UNCHANGED <<force_rollback, is_connected, pool, ctx, counter, clock,
                   tlock, stack, raw, txConn, txForce, is_root, savepoint_name,
                   nextTx, committed, sess, frames, scopes, last,
                   broken, ref, fails, gen, pure>>

\* user code catches the exception (try/except)
Catch(t) ==
    /\ Idle(t) /\ exc[t]
    /\ exc' = [exc EXCEPT ![t] = FALSE]
    /\ UNCHANGED <<force_rollback, is_connected, pool, ctx, counter, clock,
                   tlock, stack, raw, txConn, txForce, is_root, savepoint_name,
                   nextTx, committed, sess, frames, scopes, last,
                   broken, ref, fails, gen, pure>>

\* asyncio.create_task: the child starts with a copy of the parent's context
Spawn(t, u) ==
    /\ Idle(t) /\ ctx[u] = NoTask
    /\ ctx' = [ctx EXCEPT ![u] = ctx[t]]
    /\ UNCHANGED <<force_rollback, is_connected, pool, counter, clock, tlock,
                   stack, raw, txConn, txForce, is_root, savepoint_name, nextTx,
                   committed, sess, frames, scopes, exc, last,
                   broken, ref, fails, gen, pure>>

\* stream = database.iterate(<a query of n rows>): nothing runs yet
Iterate(t, n) ==
    /\ CanCall(t)
    /\ gen[t].st \in {"none", "done"} /\ gen[t].inner # "suspended"
    /\ gen' = [gen EXCEPT ![t] = [NoStream EXCEPT !.st = "new", !.left = n]]
    /\ UNCHANGED <<force_rollback, is_connected, pool, ctx, counter, clock,
                   tlock, stack, raw, txConn, txForce, is_root, savepoint_name,
                   nextTx, committed, sess, frames, scopes, exc, last,
                   broken, ref, fails, pure>>

\* `async for row in stream`: the consumer pulls the next row
IterNext(t) ==
    /\ CanCall(t) /\ gen[t].st \in {"new", "open"}
    /\ IF gen[t].st = "new"
       THEN /\ CanEnter(ConnectionOf(t))
            /\ Install(Begin(t, "iter_next",
                   Frame("Database.iterate", "call", ConnectionOf(t), GT),
                   FALSE))
            /\ Resolved(t)
       ELSE /\ Install(Begin(t, "iter_next",
                   Frame("Database.iterate", "resume", gen[t].c, GT), FALSE))
            /\ UNCHANGED ctx
    /\ UNCHANGED <<force_rollback, txConn, txForce, nextTx, fails, pure>>

\* await stream.aclose(): the consumer stops before the stream has ended
IterClose(t) ==
    /\ CanCall(t) /\ gen[t].st \in {"new", "open"}
    /\ IF gen[t].st = "new"
       THEN Install([Here EXCEPT !.gen[t].st = "done"])
       ELSE Install(Begin(t, "iter_close",
                Frame("Database.iterate", "aclose", gen[t].c, GT), FALSE))
    /\ UNCHANGED <<force_rollback, ctx, txConn, txForce, nextTx, fails, pure>>

\* The event loop's hook for async generators that are dropped while they
\* are suspended: it closes the backend's generator in a task of its own,
\* where the `finally` of the generator closes the cursor.
Finalize(t) ==
    /\ gen[t].st = "done" /\ gen[t].inner = "suspended"
    /\ gen' = [gen EXCEPT ![t].inner = "finished", ![t].cursor = "closed"]
    /\ UNCHANGED <<force_rollback, is_connected, pool, ctx, counter, clock,
                   tlock, stack, raw, txConn, txForce, is_root, savepoint_name,
                   nextTx, committed, sess, frames, scopes, exc, last,
                   broken, ref, fails, pure>>

\* ---- the event loop ------------------------------------------------------
DriverAwaits ==
    {"acquire", "release", "start", "close", "backend", "query",
     "cursor", "cursor_execute", "fetch", "cursor_close"}

Suspended(t) == frames[t] # <<>>
AwaitsDriver(t) == Suspended(t) /\ Top(Here, t).at \in DriverAwaits

\* the lock a task suspended at "lock" waits for is free
LockFree(t) ==
    /\ Suspended(t) /\ Top(Here, t).at = "lock"
    /\ IF Top(Here, t).fn \in {"Connection.__aenter__", "Connection.__aexit__"}
       THEN clock[Top(Here, t).c] = Free
       ELSE tlock[Top(Here, t).c] = Free

\* pool.wait_closed() returns once every raw connection is back in the pool
PoolDrained(t) ==
    Top(Here, t).cmd.k = "disconnect" => \A c \in Conns : ~raw[c]

\* the driver call a task awaits returns
DriverReturns(t) ==
    /\ AwaitsDriver(t)
    /\ PoolDrained(t)
    /\ Install(Step(Here, t, "ok"))
    /\ UNCHANGED <<force_rollback, ctx, txConn, txForce, nextTx, fails, pure>>

\* the driver call a task awaits raises, or the task is cancelled in it
DriverRaises(t) ==
    /\ AwaitsDriver(t)
    /\ fails < MaxFail
    /\ Install(Step(Log(Here, t, "error"), t, "raise"))
    /\ fails' = fails + 1
    /\ UNCHANGED <<force_rollback, ctx, txConn, txForce, nextTx, pure>>

\* a task waiting for a lock gets it
LockWake(t) ==
    /\ LockFree(t)
    /\ Install(Step(Here, t, "ok"))
    /\ UNCHANGED <<force_rollback, ctx, txConn, txForce, nextTx, fails, pure>>

\* ---- the functions that touch no connection --------------------------------
\* A Python value is [type, v]; a column of a result is [name, column,
\* datatype], column being str() of the sqlalchemy Column.
Py(type, v) == [type |-> type, v |-> v]
None == Py("NoneType", "None")

\* str.lower() on the texts the model uses
lower(text) ==
    CASE text = "True" -> "true"
      [] text = "FALSE" -> "false"
      [] text = "Verify-Full" -> "verify-full"
      [] text = "LocalHost" -> "localhost"
      [] OTHER -> text

\* sqlalchemy's processors.to_float: the result processor of PGNumeric
to_float(value) ==
    IF value = None THEN None
    ELSE IF value.type = "str"
    THEN Py("float", CASE value.v = "1" -> 1 [] value.v = "2" -> 2)
    ELSE Py("float", value.v)

\* sqlalchemy's processors.to_str: the bind processor of PGNumeric
to_str(value) ==
    IF value = None THEN None
    ELSE Py("str", CASE value.v = 1 -> "1" [] value.v = 2 -> "2")

\* create_column_maps and the lookup of a key in them: the position (from 1)
\* of the column the key names, 0 when the maps do not hold it
ColumnIndex(result_columns, key) ==
    LET hits == {i \in 1..Len(result_columns) :
                    CASE key.type = "Column" -> key.v = result_columns[i].column
                      [] key.type = "int" -> key.v = i - 1
                      [] OTHER -> key.v = result_columns[i].name}
    IN IF hits = {} THEN 0 ELSE CHOOSE i \in hits : \A j \in hits : j <= i

\* (a variant that applies the processor whatever the dialect is)
Record_getitem_any_dialect(self, key) ==
    LET idx == ColumnIndex(self.result_columns, key)
    IN IF idx = 0 THEN Py("KeyError", "KeyError")
       ELSE IF /\ self.result_columns[idx].datatype = "Numeric"
               /\ self.row[idx].type \in {"int", "str", "float"}
       THEN to_float(self.row[idx])
       ELSE self.row[idx]

\* Record.__getitem__ of a Record with result columns
Record_getitem(self, key) ==
    LET idx == ColumnIndex(self.result_columns, key)
    IN IF idx = 0 THEN Py("KeyError", "KeyError")
       ELSE IF /\ self.dialect = "postgresql"
               /\ self.result_columns[idx].datatype = "Numeric"
               /\ self.row[idx].type \in {"int", "str", "float"}
       THEN to_float(self.row[idx])
       ELSE self.row[idx]

PsycopgRecord_getitem(self, key) ==
    LET idx == ColumnIndex(self.result_columns, key)
    IN IF idx = 0 THEN Py("KeyError", "KeyError") ELSE self.row[idx]

getitem(record, key) ==
    IF record.type = "PsycopgRecord" THEN PsycopgRecord_getitem(record.v, key)
    ELSE Record_getitem(record.v, key)

\* AsyncpgConnection.fetch_one / PsycopgConnection.fetch_one: rows is what the
\* query selects, of which the driver's fetchrow() / fetchone() gives the first
fetch_one(backend, acquired, rows, result_columns) ==
    IF ~acquired
    THEN Py(IF backend = "psycopg" THEN "RuntimeError" ELSE "AssertionError",
            "Connection is not acquired")
    ELSE IF rows = <<>> THEN None
    ELSE Py(IF backend = "psycopg" THEN "PsycopgRecord" ELSE "Record",
            [row |-> rows[1], result_columns |-> result_columns,
             dialect |-> "postgresql"])

\* (a variant that indexes whatever fetch_one returned)
fetch_val_unchecked(backend, acquired, rows, result_columns, column) ==
    LET row == fetch_one(backend, acquired, rows, result_columns)
    IN IF row.type \in {"RuntimeError", "AssertionError"} THEN row
       ELSE IF row = None THEN Py("TypeError", "not subscriptable")
       ELSE getitem(row, Py("int", column))

\* AsyncpgConnection.fetch_val / PsycopgConnection.fetch_val
fetch_val(backend, acquired, rows, result_columns, column) ==
    LET row == fetch_one(backend, acquired, rows, result_columns)
    IN IF row.type \in {"RuntimeError", "AssertionError"} THEN row
       ELSE IF row = None THEN None
       ELSE getitem(row, Py("int", column))

\* sorted(compiled.params.items()): the keys of the model are "a" and "b"
Sorted(params) ==
    LET keys == SelectSeq(<<"a", "b">>,
                          LAMBDA k : \E i \in 1..Len(params) : params[i].key = k)
    IN [i \in 1..Len(keys) |->
           params[CHOOSE j \in 1..Len(params) : params[j].key = keys[i]]]

\* compiled.string % mapping, on a statement given as its pieces: the
\* placeholder of the i-th of the sorted parameters becomes $i, %% becomes %
Format(string, compiled_params) ==
    [i \in 1..Len(string) |->
        LET hits == {j \in 1..Len(compiled_params) :
                        string[i] = IF compiled_params[j].key = "a"
                                    THEN "%(a)s" ELSE "%(b)s"}
        IN IF string[i] = "%%" THEN "%"
           ELSE IF hits = {} THEN string[i]
           ELSE IF 1 \in hits THEN "$1" ELSE "$2"]

\* processors[key](val) if key in processors else val
BindProcessed(compiled, param) ==
    IF param.key \in compiled.bind_processors THEN to_str(param.val)
    ELSE param.val

\* sort, substitute, process: what the backends do with a statement that has
\* parameters
Processed(compiled) ==
    LET compiled_params == Sorted(compiled.params)
    IN [query |-> Format(compiled.string, compiled_params),
        args |-> [i \in 1..Len(compiled_params) |->
                     BindProcessed(compiled, compiled_params[i])],
        result_map |-> Py("list", compiled.result_columns)]

\* compile_query of dialects/psycopg.py (AsyncpgConnection)
compile_query(compiled) ==
    IF ~compiled.ddl THEN Processed(compiled)
    ELSE [query |-> compiled.string, args |-> <<>>, result_map |-> None]

\* PostgresConnection._compile: compiled.params of a DDL statement is None
\* or empty, as the compiler of the statement has it
PostgresConnection_compile(compiled) ==
    IF ~compiled.has_params
    THEN [query |-> <<"AttributeError">>, args |-> <<>>, result_map |-> None]
    ELSE Processed(compiled)

\* The statements of the model are given as a dialect of paramstyle
\* "pyformat" renders them (postgres, mysql, mssql); the sqlite dialect is of
\* paramstyle "qmark": every reference to a parameter is rendered as ?
Qmark(string) ==
    [i \in 1..Len(string) |->
        IF string[i] \in {"%(a)s", "%(b)s"} THEN "?" ELSE string[i]]

\* SQLiteConnection._compile
SQLiteConnection_compile(compiled) ==
    IF ~compiled.has_params
    THEN [query |-> <<"AttributeError">>, args |-> <<>>, result_map |-> None]
    ELSE [query |-> Qmark(compiled.string),
          args |-> [i \in 1..Len(compiled.params) |->
                       BindProcessed(compiled, compiled.params[i])],
          result_map |-> Py("CompilationContext", compiled.result_columns)]

\* MSSQLConnection._compile: every key is mapped to "?", the args are the
\* values of compiled.params in the order of that dict
MSSQLConnection_compile(compiled) ==
    IF compiled.ddl
    THEN [query |-> compiled.string, args |-> <<>>, result_map |-> None]
    ELSE [query |-> Qmark(Format(compiled.string, <<>>)),
          args |-> [i \in 1..Len(compiled.params) |->
                       BindProcessed(compiled, compiled.params[i])],
          result_map |-> Py("list", compiled.result_columns)]

\* MySQLConnection._compile and AiopgConnection._compile: the dict of
\* construct_params() with the bind processors applied, and compiled.string
\* itself (the string with $i in it is only logged)
MySQLConnection_compile(compiled) ==
    IF compiled.ddl
    THEN [query |-> compiled.string, args |-> <<>>, result_map |-> None]
    ELSE [query |-> compiled.string,
          args |-> [i \in 1..Len(compiled.params) |->
                       [key |-> compiled.params[i].key,
                        val |-> BindProcessed(compiled, compiled.params[i])]],
          result_map |-> Py("list", compiled.result_columns)]

\* PsycopgConnection._compile: compiled.string, compiled.params and
\* compiled._result_columns as they are
PsycopgConnection_compile(compiled) ==
    [query |-> compiled.string, args |-> compiled.params,
     result_map |-> Py("list", compiled.result_columns)]

\* _get_connection_kwargs()["ssl"], from the url option ssl
\* PostgresBackend: {"true": True, "false": False}[ssl.lower()]
PostgresBackend_get_connection_kwargs(ssl) ==
    IF ssl = None THEN None
    ELSE IF lower(ssl.v) = "true" THEN Py("bool", "True")
    ELSE IF lower(ssl.v) = "false" THEN Py("bool", "False")
    ELSE Py("KeyError", lower(ssl.v))

\* AsyncpgBackend: {"true": True, "false": False}.get(ssl, ssl) of ssl.lower()
AsyncpgBackend_get_connection_kwargs(ssl) ==
    IF ssl = None THEN None
    ELSE IF lower(ssl.v) = "true" THEN Py("bool", "True")
    ELSE IF lower(ssl.v) = "false" THEN Py("bool", "False")
    ELSE Py("str", lower(ssl.v))

\* A url postgresql://[username[:password]@]host[:port]/name as its pieces;
\* Absent where the url has no such piece.
Absent == "<absent>"
Url(username, password, host, port) ==
    <<"postgresql://">>
    \o (IF username = Absent THEN <<>>
        ELSE <<username>>
             \o (IF password = Absent THEN <<>> ELSE <<":", password>>)
             \o <<"@">>)
    \o <<host>>
    \o (IF port = Absent THEN <<>> ELSE <<":", port>>)
    \o <<"/name">>

\* DatabaseURL.replace(password=...) over urlsplit's components: hostname is
\* None for an empty host and in lower case otherwise
DatabaseURL_replace(url, password) ==
    LET hostname == IF url.host = "" THEN None ELSE Py("str", lower(url.host))
    IN IF hostname = None /\ url.port # Absent THEN <<"TypeError">>
       ELSE Url(url.username, password, hostname.v, url.port)

\* DatabaseURL.__repr__, without the constant DatabaseURL('...') around it
DatabaseURL_repr(url) ==
    IF url.password \notin {Absent, ""}
    THEN DatabaseURL_replace(url, "********")
    ELSE Url(url.username, url.password, url.host, url.port)

\* ConnectionBackend.acquire() of backend b, the pool answering: connection is
\* `self._connection is not None`, running is `self._database._pool is not
\* None`; taken counts the raw connections that left the pool.
\* asyncpg, postgres, aiopg, mysql, mssql and sqlite assert; psycopg returns.
ConnectionBackend_acquire(b, connection, running) ==
    IF connection
    THEN [error |-> IF b = "psycopg" THEN "" ELSE "AssertionError",
          connection |-> connection, taken |-> 0]
    ELSE IF ~running /\ b # "sqlite"
    THEN [error |-> IF b = "psycopg" THEN "RuntimeError" ELSE "AssertionError",
          connection |-> connection, taken |-> 0]
    ELSE [error |-> "", connection |-> TRUE, taken |-> 1]

\* ConnectionBackend.release(): psycopg returns when no connection is held,
\* and calls putconn of a pool that is None without looking
ConnectionBackend_release(b, connection, running) ==
    IF ~connection
    THEN [error |-> IF b = "psycopg" THEN "" ELSE "AssertionError",
          connection |-> connection, taken |-> 0]
    ELSE IF ~running /\ b # "sqlite"
    THEN [error |-> IF b = "psycopg" THEN "AttributeError" ELSE "AssertionError",
          connection |-> connection, taken |-> 0]
    ELSE [error |-> "", connection |-> FALSE, taken |-> 0 - 1]

\* ---- the driver calls of a backend method ----------------------------------
\* The body of a backend method as the statements that touch the driver, in
\* order: "cursor" (cursor = await connection.cursor()), "open_execute"
\* (aiosqlite's connection.execute(sql), which runs sql and returns a new
\* cursor), "execute" (await cursor.execute(sql)), "fetch", "yield", "call" (a
\* driver call that opens no cursor), "close" (cursor.close() of the cursor
\* the name is bound to), and the try: / finally: / end of a try statement or
\* an `async with`.  q numbers the queries of execute_many.
Stmt(k, q) == [k |-> k, q |-> q]

\* cursor = await connection.cursor(); try: body; finally: cursor.close()
Guarded(body) ==
    <<Stmt("cursor", 0), Stmt("try", 0)>> \o body
        \o <<Stmt("finally", 0), Stmt("close", 0), Stmt("end", 0)>>

Body(b, op, root, n) ==
    LET each[i \in 0..n] ==
            IF i = 0 THEN <<>>
            ELSE each[i - 1] \o Guarded(<<Stmt("execute", i)>>)
    IN CASE op \in {"fetch_all", "fetch_one"} ->
              IF b = "sqlite"
              THEN <<Stmt("open_execute", 0), Stmt("try", 0), Stmt("fetch", 0),
                     Stmt("finally", 0), Stmt("close", 0), Stmt("end", 0)>>
              ELSE Guarded(<<Stmt("execute", 0), Stmt("fetch", 0)>>)
         [] op = "execute" -> Guarded(<<Stmt("execute", 0)>>)
         [] op = "execute_many" ->
              IF b = "sqlite" THEN each[n]
              ELSE Guarded([i \in 1..n |-> Stmt("execute", i)])
         [] op = "iterate" ->
              IF b = "sqlite"
              THEN <<Stmt("cursor", 0), Stmt("open_execute", 0), Stmt("try", 0),
                     Stmt("fetch", 0), Stmt("yield", 0),
                     Stmt("finally", 0), Stmt("close", 0), Stmt("end", 0)>>
              ELSE Guarded(<<Stmt("execute", 0), Stmt("fetch", 0),
                             Stmt("yield", 0)>>)
         [] op \in {"start", "commit", "rollback"} ->
              IF b = "sqlite" THEN <<Stmt("open_execute", 0), Stmt("close", 0)>>
              ELSE IF ~root THEN Guarded(<<Stmt("execute", 0)>>)
              ELSE IF b = "aiopg" THEN <<Stmt("cursor", 0), Stmt("execute", 0)>>
              ELSE <<Stmt("call", 0)>>

\* the statements that await the driver (or, for "yield", the consumer): the
\* places where a driver error, a cancellation or GeneratorExit comes in
Awaits == {"cursor", "open_execute", "execute", "fetch", "yield", "call"}

\* The body runs from statement i on; statement fail_at raises (0: none
\* does).  After a raise the statements are skipped, except those of the
\* finally block of a try the raise happened in.  open counts the cursors
\* that are open, ran lists the queries that were executed.
RECURSIVE RunFrom(_, _, _, _)
RunFrom(body, i, fail_at, st) ==
    IF i > Len(body) THEN [res |-> st.res, open |-> st.open, ran |-> st.ran]
    ELSE LET s == body[i]
             live == st.res = "ok" \/ st.handling
             nx == IF ~live THEN st
                   ELSE IF s.k \in Awaits /\ i = fail_at
                   THEN [st EXCEPT !.res = "raise"]
                   ELSE CASE s.k = "cursor" -> [st EXCEPT !.open = @ + 1]
                          [] s.k = "open_execute" ->
                               [st EXCEPT !.open = @ + 1, !.ran = Append(@, s.q)]
                          [] s.k = "execute" -> [st EXCEPT !.ran = Append(@, s.q)]
                          [] s.k = "close" -> [st EXCEPT !.open = @ - 1]
                          [] s.k = "try" -> [st EXCEPT !.in_try = TRUE]
                          [] OTHER -> st
         IN RunFrom(body, i + 1, fail_at,
                    CASE s.k = "finally" ->
                             [nx EXCEPT !.handling = st.in_try, !.in_try = FALSE]
                      [] s.k = "end" -> [nx EXCEPT !.handling = FALSE]
                      [] OTHER -> nx)

\* (a variant that goes on with the next statement after one has raised)
RunOn(body, fail_at) ==
    [RunFrom(SubSeq(body, 1, fail_at - 1) \o SubSeq(body, fail_at + 1, Len(body)),
             1, 0, [res |-> "ok", open |-> 0, ran |-> <<>>,
                    in_try |-> FALSE, handling |-> FALSE])
        EXCEPT !.res = IF fail_at = 0 THEN "ok" ELSE "raise"]

Run(body, fail_at) ==
    RunFrom(body, 1, fail_at, [res |-> "ok", open |-> 0, ran |-> <<>>,
                               in_try |-> FALSE, handling |-> FALSE])

\* ---- the calls under study --------------------------------------------------
Values == {None, Py("int", 1), Py("str", "1"), Py("float", 1), Py("Decimal", 1)}
ResultColumns ==
    <<[name |-> "id", column |-> "notes.id", datatype |-> "Integer"],
      [name |-> "price", column |-> "notes.price", datatype |-> "Numeric"]>>
ResultRows ==
    {<<>>}
    \cup {<<<<a, b>>>> : a, b \in Values}
    \cup {<<<<a, b>>, <<Py("int", 2), Py("int", 2)>>>> : a, b \in {None, Py("int", 1)}}
Statements ==
    {[ddl |-> d, has_params |-> h, string |-> s, params |-> <<>>,
      bind_processors |-> {}, result_columns |-> r] :
        d \in BOOLEAN, h \in BOOLEAN, r \in {<<>>, <<"id">>},
        s \in {<<"CREATE TABLE t (n INT)">>,
               <<"CREATE TABLE t (s TEXT DEFAULT '", "%%", "')">>}}
    \cup {[ddl |-> FALSE, has_params |-> TRUE,
           string |-> <<"SELECT id FROM t WHERE n =", "%(b)s", "AND m =", "%(a)s">>,
           params |-> ps, bind_processors |-> bp, result_columns |-> <<"id">>] :
             ps \in {<<[key |-> "a", val |-> Py("int", 1)],
                       [key |-> "b", val |-> Py("int", 2)]>>,
                     <<[key |-> "b", val |-> Py("int", 2)],
                       [key |-> "a", val |-> Py("int", 1)]>>},
             bp \in SUBSET {"a", "b"}}
    \cup {[ddl |-> FALSE, has_params |-> TRUE,
           string |-> <<"SELECT id FROM t WHERE n =", "%(a)s", "OR m =", "%(a)s">>,
           params |-> <<[key |-> "a", val |-> Py("int", 1)]>>,
           bind_processors |-> bp, result_columns |-> <<"id">>] :
             bp \in SUBSET {"a"}}
\* the call the run is about, with its arguments
Drawn ==
    \/ pure \in {[fn |-> "fetch_one", out |-> <<>>,
                   args |-> [backend |-> b, acquired |-> q, rows |-> r]] :
                    b \in {"asyncpg", "psycopg"}, q \in BOOLEAN, r \in ResultRows}
    \/ pure \in {[fn |-> "fetch_val", out |-> <<>>,
                   args |-> [backend |-> b, acquired |-> q, rows |-> r,
                             column |-> c]] :
                    b \in {"asyncpg", "psycopg"}, q \in BOOLEAN, r \in ResultRows,
                    c \in {0, 1}}
    \/ pure \in {[fn |-> "compile", out |-> <<>>,
                   args |-> [backend |-> b, compiled |-> q]] :
                    b \in {"asyncpg", "postgres", "sqlite", "mssql", "mysql",
                           "aiopg", "psycopg"},
                    q \in {x \in Statements : x.ddl \/ x.has_params}}
    \/ pure \in {[fn |-> "getitem", out |-> <<>>,
                   args |-> [record |-> Py(cd[1], [row |-> <<a, b>>,
                                                   result_columns |-> ResultColumns,
                                                   dialect |-> cd[2]]),
                             key |-> Py(k[1], k[2])]] :
                    cd \in {<<"Record", "postgresql">>, <<"Record", "mysql">>,
                            <<"Record", "sqlite">>,
                            <<"PsycopgRecord", "postgresql">>},
                    a \in {Py("int", 1), Py("str", "2")}, b \in Values,
                    k \in {<<"str", "id">>, <<"str", "price">>,
                           <<"Column", "notes.id">>, <<"Column", "notes.price">>}
                          \cup {<<"int", 0>>, <<"int", 1>>}}
    \/ pure \in {[fn |-> f, out |-> <<>>,
                   args |-> [backend |-> b, connection |-> c, running |-> r]] :
                    f \in {"acquire", "release"},
                    b \in {"asyncpg", "psycopg", "postgres", "aiopg", "mysql",
                           "mssql", "sqlite"},
                    c \in BOOLEAN, r \in BOOLEAN}
    \/ pure \in UNION {{[fn |-> "run", out |-> <<>>,
                           args |-> [backend |-> b, op |-> o[1], root |-> o[2],
                                     n |-> o[3], fail_at |-> f]] :
                            f \in {0} \cup {i \in 1..Len(Body(b, o[1], o[2], o[3])) :
                                       Body(b, o[1], o[2], o[3])[i].k \in Awaits}} :
                    b \in {"mysql", "aiopg", "sqlite"},
                    o \in {<<op, FALSE, 1>> :
                               op \in {"fetch_all", "fetch_one", "execute", "iterate"}}
                          \cup {<<"execute_many", FALSE, n>> : n \in 0..MaxQueries}
                          \cup {<<op, r, 1>> : op \in {"start", "commit", "rollback"},
                                              r \in BOOLEAN}}
    \/ pure \in {[fn |-> "ssl", out |-> <<>>,
                   args |-> [backend |-> b, ssl |-> o]] :
                    b \in {"asyncpg", "postgres"},
                    o \in {None} \cup {Py("str", text) :
                               text \in {"true", "True", "false", "FALSE",
                                         "verify-full", "Verify-Full"}}}
    \/ pure \in {[fn |-> "repr", out |-> <<>>,
                   args |-> [username |-> u, password |-> p, host |-> h,
                             port |-> n]] :
                    u \in {"username"}, p \in {Absent, "", "password", "secret"},
                    h \in {"", "localhost", "LocalHost"}, n \in {Absent, "123"}}
    \/ pure \in {[fn |-> "repr", out |-> <<>>,
                   args |-> [username |-> Absent, password |-> Absent,
                             host |-> h, port |-> n]] :
                    h \in {"", "localhost", "LocalHost"}, n \in {Absent, "123"}}

\* everything the functions leave alone
program ==
    <<force_rollback, is_connected, pool, ctx, counter, clock, tlock, stack,
      raw, txConn, txForce, is_root, savepoint_name, nextTx, committed, sess,
      frames, scopes, exc, last, broken, ref, fails, gen>>

Returns(fn, value) ==
    /\ pure.fn = fn /\ Len(pure.out) = 0
    /\ pure' = [pure EXCEPT !.out = <<value>>]
    /\ UNCHANGED program

FetchOne ==
    Returns("fetch_one",
            fetch_one(pure.args.backend, pure.args.acquired, pure.args.rows,
                      ResultColumns))
FetchVal ==
    Returns("fetch_val",
            fetch_val(pure.args.backend, pure.args.acquired, pure.args.rows,
                      ResultColumns, pure.args.column))
Compile ==
    Returns("compile",
            CASE pure.args.backend = "asyncpg" -> compile_query(pure.args.compiled)
              [] pure.args.backend = "postgres" ->
                     PostgresConnection_compile(pure.args.compiled)
              [] pure.args.backend = "sqlite" ->
                     SQLiteConnection_compile(pure.args.compiled)
              [] pure.args.backend = "mssql" ->
                     MSSQLConnection_compile(pure.args.compiled)
              [] pure.args.backend \in {"mysql", "aiopg"} ->
                     MySQLConnection_compile(pure.args.compiled)
              [] pure.args.backend = "psycopg" ->
                     PsycopgConnection_compile(pure.args.compiled))
GetItem == Returns("getitem", getitem(pure.args.record, pure.args.key))
SslOption ==
    Returns("ssl",
            IF pure.args.backend = "asyncpg"
            THEN AsyncpgBackend_get_connection_kwargs(pure.args.ssl)
            ELSE PostgresBackend_get_connection_kwargs(pure.args.ssl))
Repr == Returns("repr", DatabaseURL_repr(pure.args))
BackendCall ==
    Returns("run",
            Run(Body(pure.args.backend, pure.args.op, pure.args.root,
                     pure.args.n), pure.args.fail_at))
Acquire ==
    Returns("acquire",
            ConnectionBackend_acquire(pure.args.backend, pure.args.connection,
                                      pure.args.running))
Release ==
    Returns("release",
            ConnectionBackend_release(pure.args.backend, pure.args.connection,
                                      pure.args.running))

\* ---- the specification ---------------------------------------------------
NoCall ==
    [op |-> "", c |-> NoConn, x |-> GT, res |-> "ok", cmds |-> <<>>,
     excIn |-> FALSE]

Init ==
    /\ force_rollback \in BOOLEAN
    /\ is_connected = FALSE
    /\ pool = "down"
    /\ ctx = [t \in Tasks |-> IF t = 1 THEN NoConn ELSE NoTask]
    /\ counter = [c \in Conns |-> 0]
    /\ clock = [c \in Conns |-> Free]
    /\ tlock = [c \in Conns |-> Free]
    /\ stack = [c \in Conns |-> <<>>]
    /\ raw = [c \in Conns |-> FALSE]
    /\ txConn = [x \in Txs |-> IF x = GT /\ force_rollback THEN G ELSE NoConn]
    /\ txForce = [x \in Txs |-> x = GT]
    /\ is_root = [x \in Txs |-> FALSE]
    /\ savepoint_name = [x \in Txs |-> 0]
    /\ nextTx = 1
    /\ committed = {}
    /\ sess = [c \in Conns |-> Sess0]
    /\ frames = [t \in Tasks |-> <<>>]
    /\ scopes = [t \in Tasks |-> <<>>]
    /\ exc = [t \in Tasks |-> FALSE]
    /\ last = [t \in Tasks |-> NoCall]
    /\ broken = [c \in Conns |-> ""]
    /\ ref = [c \in Conns |-> Ref0]
    /\ fails = 0
    /\ gen = [t \in Tasks |-> NoStream]
    /\ (pure = NoFunction \/ Drawn)

\* Database(url) and Database(url, force_rollback=True)
InitPlain == Init /\ ~force_rollback /\ pure.fn = ""
InitForce == Init /\ force_rollback /\ pure.fn = ""
\* Database(url), and one function to apply
InitPure == Init /\ ~force_rollback /\ pure.fn # ""

Next ==
    \/ \E t \in Tasks : Connect(t)
    \/ \E t \in Tasks : Disconnect(t)
    \/ \E t \in Tasks, r \in Rows : OneShot(t, r)
    \/ \E t \in Tasks : ConnEnter(t)
    \/ \E t \in Tasks : ConnExit(t)
    \/ \E t \in Tasks, f \in BOOLEAN : NewTransaction(t, f)
    \/ \E t \in Tasks, x \in Txs : TxEnter(t, x)
    \/ \E t \in Tasks, x \in Txs : TxStart(t, x)
    \/ \E t \in Tasks, x \in Txs : TxCommit(t, x)
    \/ \E t \in Tasks, x \in Txs : TxRollback(t, x)
    \/ \E t \in Tasks : ScopeExit(t)
    \/ \E t \in Tasks : UserRaise(t)
    \/ \E t \in Tasks : Catch(t)
    \/ \E t, u \in Tasks : Spawn(t, u)
    \/ \E t \in Tasks : DriverReturns(t)
    \/ \E t \in Tasks : DriverRaises(t)
    \/ \E t \in Tasks : LockWake(t)
    \/ \E t \in Tasks, n \in 0..MaxRows : Iterate(t, n)
    \/ \E t \in Tasks : IterNext(t)
    \/ \E t \in Tasks : IterClose(t)
    \/ \E t \in Tasks : Finalize(t)
    \/ FetchOne
    \/ FetchVal
    \/ Compile
    \/ GetItem
    \/ SslOption
    \/ Repr
    \/ Acquire
    \/ Release
    \/ BackendCall

Spec == Init /\ [][Next]_vars

\* ---- connections shared by tasks ------------------------------------------
\* Two tasks, the second one spawned by the first (so that it inherits the
\* connection of the first, or resolves one of its own), use a connected
\* database through `async with database.connection()` and one-shot queries.
NextConn ==
    \/ \E t \in Tasks : Connect(t)
    \/ \E t \in Tasks : is_connected /\ OneShot(t, 1)
    \/ \E t \in Tasks : is_connected /\ ConnEnter(t)
    \/ \E t \in Tasks : ScopeExit(t)
    \/ \E t \in Tasks : Catch(t)
    \/ \E t, u \in Tasks : Spawn(t, u)
    \/ \E t \in Tasks : DriverReturns(t)
    \/ \E t \in Tasks : DriverRaises(t)
    \/ \E t \in Tasks : LockWake(t)

SpecConn == InitPlain /\ [][NextConn]_vars

AwaitsAt(t, fn, label) ==
    /\ Suspended(t)
    /\ Top(Here, t).fn = fn
    /\ Top(Here, t).at = label

\* C1: while the backend acquire()/release() of a connection have not
\* raised, acquire() is awaited only with the counter at 1 (it went from 0 to
\* 1) and release() only with the counter at 0 (it went from 1 to 0), both
\* under the connection lock; and whenever that lock is free, the counter is
\* 0 exactly when the raw connection is not held.
C1_AcquireOnFirstReleaseOnLast ==
    \A c \in Conns :
        broken[c] = "" =>
            /\ clock[c] = Free => (counter[c] = 0 <=> ~raw[c])
            /\ \A t \in Tasks :
                   /\ (AwaitsAt(t, "Connection.__aenter__", "acquire")
                          /\ Top(Here, t).c = c)
                        => (counter[c] = 1 /\ clock[c] = t /\ ~raw[c])
                   /\ (AwaitsAt(t, "Connection.__aexit__", "release")
                          /\ Top(Here, t).c = c)
                        => (counter[c] = 0 /\ clock[c] = t /\ raw[c])

\* two tasks have entered one connection and both have left it again
C1_Witness ==
    \E c \in Conns :
        /\ \A t \in Tasks :
               /\ last[t].op = "conn_exit" /\ last[t].res = "ok"
               /\ last[t].c = c
        /\ last[1].cmds = <<>> /\ last[2].cmds = <<"release">>
        /\ broken[c] = "" /\ counter[c] = 0 /\ ~raw[c]

\* ---- transactions as scoped blocks ---------------------------------------
\* One task uses transactions of a connected database as `async with` blocks,
\* nested, with bodies that complete, raise, or close a frame by hand.
OnStack(x) == \E c \in Conns : \E i \in 1..Len(stack[c]) : stack[c][i] = x

NextScoped ==
    \/ Connect(1)
    \/ \E f \in BOOLEAN : is_connected /\ NewTransaction(1, f)
    \/ \E x \in Txs : is_connected /\ ~OnStack(x) /\ TxEnter(1, x)
    \/ \E x \in Txs : is_connected /\ TxCommit(1, x)
    \/ ScopeExit(1)
    \/ UserRaise(1)
    \/ Catch(1)
    \/ DriverReturns(1)
    \/ DriverRaises(1)

SpecScoped == InitPlain /\ [][NextScoped]_vars

Count(seq, e) == Cardinality({i \in 1..Len(seq) : seq[i] = e})
Ended(t, op) == last[t].op = op /\ last[t].res # "run"

\* C2: when a transaction's `async with` block has ended and its frame was
\* still the top of the stack (commit()/rollback() passed their assertion),
\* the backend was asked exactly one commit and no rollback if the body
\* completed normally and force_rollback is false, and exactly one rollback
\* and no commit if the body raised or force_rollback is true.
C2_ScopedExitCommitsOrRollsBack ==
    \A t \in Tasks :
        (Ended(t, "tx_exit") /\ Count(last[t].cmds, "assert") = 0) =>
            IF last[t].excIn \/ txForce[last[t].x]
            THEN /\ Count(last[t].cmds, "rollback") = 1
                 /\ Count(last[t].cmds, "commit") = 0
            ELSE /\ Count(last[t].cmds, "commit") = 1
                 /\ Count(last[t].cmds, "rollback") = 0

\* an inner block whose body raised has ended with a rollback
C2_Witness ==
    /\ Ended(1, "tx_exit") /\ last[1].excIn /\ ~txForce[last[1].x]
    /\ last[1].cmds = <<"rollback">>
    /\ last[1].res = "ok"
    /\ Len(stack[last[1].c]) = 1

\* ---- transactions started and closed by hand ------------------------------
\* One task of a connected database starts, commits and rolls back
\* transactions with start() / commit() / rollback(), in any order, inside or
\* outside an `async with database.connection()` block.
NextTx ==
    \/ Connect(1)
    \/ is_connected /\ NewTransaction(1, FALSE)
    \/ is_connected /\ ConnEnter(1)
    \/ ScopeExit(1)
    \/ \E x \in Txs : is_connected /\ ~OnStack(x) /\ TxStart(1, x)
    \/ \E x \in Txs : is_connected /\ TxCommit(1, x)
    \/ \E x \in Txs : is_connected /\ TxRollback(1, x)
    \/ Catch(1)
    \/ DriverReturns(1)
    \/ DriverRaises(1)

SpecTx == InitPlain /\ [][NextTx]_vars

\* the `async with connection` blocks the tasks are in
Held(c) ==
    Cardinality({<<t, i>> \in Tasks \X (1..MaxScopes + 1) :
                    /\ i <= Len(scopes[t])
                    /\ scopes[t][i] = [k |-> "conn", id |-> c]})
AllIdle == \A t \in Tasks : frames[t] = <<>>

\* C3: with no driver error, every commit()/rollback() of the frame on top
\* of the stack succeeds, and between calls the counter of a connection is
\* the number of its open frames plus the `async with connection` blocks
\* around them: once the frames T1..Tn are closed in the order Tn..T1 the
\* stack is empty and the counter is what it was before T1 started.
C3_ClosingInReverseOrderSucceeds ==
    fails = 0 =>
        /\ \A t \in Tasks :
               (/\ Ended(t, last[t].op)
                /\ last[t].op \in {"commit", "rollback"}
                /\ Count(last[t].cmds, "assert") = 0) => last[t].res = "ok"
        /\ AllIdle => \A c \in Conns :
               /\ counter[c] = Len(stack[c]) + Held(c)
               /\ raw[c] <=> counter[c] > 0

\* T1 and T2 were started in this order inside a connection block (T2 as a
\* savepoint) and closed in reverse: the stack is empty again
C3_Witness ==
    /\ fails = 0 /\ AllIdle
    /\ nextTx > 2 /\ is_root[1] /\ ~is_root[2] /\ savepoint_name[2] # 0
    /\ last[1].op = "rollback" /\ last[1].x = 1 /\ last[1].res = "ok"
    /\ stack[1] = <<>> /\ counter[1] = 1 /\ Held(1) = 1
    /\ sess[1] = Sess0

\* task t makes a step of its own
Moved(t) == last'[t] # last[t] \/ frames'[t] # frames[t]
\* user code of task t calls commit() or rollback() in this step
CallsClose(t) ==
    /\ frames[t] = <<>> /\ Moved(t)
    /\ last'[t].op \in {"commit", "rollback"}
NotTheTop(c, x) == stack[c] = <<>> \/ stack[c][Len(stack[c])] # x

\* C4: a call of commit() or rollback() on a transaction that is not the top
\* frame of its connection's stack (a frame further down, a transaction never
\* started or one already closed) raises at once, asks nothing of the
\* backend, and leaves every stack and every counter as they were.
C4_CloseOfNonTopFails ==
    [][\A t \in Tasks :
          (CallsClose(t) /\ NotTheTop(last'[t].c, last'[t].x)) =>
              /\ frames'[t] = <<>>
              /\ last'[t].res = "raise"
              /\ last'[t].cmds = <<"assert">>
              /\ stack' = stack
              /\ counter' = counter
              /\ raw' = raw /\ sess' = sess]_vars

\* commit() or rollback() of the outer frame has failed under an inner one
C4_Witness ==
    \E t \in Tasks :
        /\ Ended(t, last[t].op) /\ last[t].op \in {"commit", "rollback"}
        /\ last[t].res = "raise" /\ last[t].cmds = <<"assert">>
        /\ Len(stack[last[t].c]) = 2
        /\ stack[last[t].c][1] = last[t].x

\* ---- what nested transactions keep ----------------------------------------
\* One task of a connected database writes rows with one-shot queries,
\* inside and outside transactions it starts, commits and rolls back by hand;
\* the driver does not fail.
NextData ==
    \/ Connect(1)
    \/ is_connected /\ NewTransaction(1, FALSE)
    \/ \E r \in Rows : is_connected /\ OneShot(1, r)
    \/ \E x \in Txs : is_connected /\ ~OnStack(x) /\ TxStart(1, x)
    \/ \E x \in Txs : is_connected /\ TxCommit(1, x)
    \/ \E x \in Txs : is_connected /\ TxRollback(1, x)
    \/ Catch(1)
    \/ DriverReturns(1)

SpecData == InitPlain /\ [][NextData]_vars

\* C5: between calls, the rows the connection shows are the rows written
\* on it less those written inside a frame that was rolled back (rolling
\* back the inner frame discards what was written after it started and
\* keeps what the outer frame wrote before); the frames below a closed one
\* stay open, in an open backend transaction; and once the stack is empty
\* the rows shown are the durable ones (outer inserts A, inner inserts B,
\* rollback inner, commit outer leaves only A).
C5_InnerRollbackKeepsOuterWrites ==
    LET c == ConnectionOf(1)
    IN AllIdle =>
           /\ Visible(sess[c], committed) = ref[c].vis
           /\ Len(ref[c].marks) = Len(stack[c])
           /\ stack[c] # <<>> => (raw[c] /\ sess[c].mode # "auto")
           /\ stack[c] = <<>> => committed = ref[c].vis

\* the inner frame has been rolled back: the outer frame is open and shows
\* its own row, nothing is durable yet
C5_Witness ==
    /\ AllIdle
    /\ last[1].op = "rollback" /\ last[1].res = "ok"
    /\ ~is_root[last[1].x]
    /\ Len(stack[1]) = 1 /\ is_root[stack[1][1]]
    /\ sess[1].own = {1} /\ committed = {}
    /\ \E i \in 1..Len(sess[1].saves) : sess[1].saves[i].snap = {1}

\* ---- force_rollback, one task ---------------------------------------------
\* One task connects a Database(force_rollback=True), writes rows with
\* one-shot queries inside and outside transactions of its own, disconnects,
\* and connects again; the driver may fail once.
NextForceSeq ==
    \/ Connect(1)
    \/ Disconnect(1)
    \/ is_connected /\ NewTransaction(1, FALSE)
    \/ is_connected /\ OneShot(1, 1)
    \/ \E x \in Txs : is_connected /\ ~OnStack(x) /\ TxStart(1, x)
    \/ \E x \in Txs : is_connected /\ TxCommit(1, x)
    \/ \E x \in Txs : is_connected /\ TxRollback(1, x)
    \/ Catch(1)
    \/ DriverReturns(1)
    \/ DriverRaises(1)

SpecForceSeq == InitForce /\ [][NextForceSeq]_vars

\* C6: whenever a Database(force_rollback=True) is disconnected, no row is
\* durable, whatever was written and committed while it was connected, in
\* the first connect()/disconnect() cycle and in every later one.
C6_NothingSurvivesDisconnect ==
    (force_rollback /\ ~is_connected) => committed = {}

\* disconnect() has returned after a row was written and a user transaction
\* was started as a savepoint; nothing is durable
C6_Witness ==
    /\ force_rollback /\ ~is_connected
    /\ last[1].op = "disconnect" /\ last[1].res = "ok"
    /\ ref[G].wrote # {}
    /\ \E x \in Txs : x # GT /\ savepoint_name[x] # 0
    /\ committed = {}

\* ---- force_rollback, two tasks --------------------------------------------
\* The first task connects and disconnects a Database(force_rollback=True);
\* the task it spawns starts, commits and rolls back a transaction of its own;
\* both run one-shot queries; the driver may fail once.
NextForce ==
    \/ Connect(1)
    \/ Disconnect(1)
    \/ Spawn(1, 2)
    \/ \E t \in Tasks : is_connected /\ OneShot(t, 1)
    \/ is_connected /\ nextTx = 1 /\ NewTransaction(2, FALSE)
    \/ \E x \in Txs : is_connected /\ ~OnStack(x) /\ TxStart(2, x)
    \/ \E x \in Txs : is_connected /\ TxCommit(2, x)
    \/ \E x \in Txs : is_connected /\ TxRollback(2, x)
    \/ \E t \in Tasks : Catch(t)
    \/ \E t \in Tasks : DriverReturns(t)
    \/ \E t \in Tasks : DriverRaises(t)
    \/ \E t \in Tasks : LockWake(t)

SpecForce == InitForce /\ [][NextForce]_vars

UserTxs == Txs \ {GT}
Pending(k) ==
    \E t \in Tasks : \E i \in 1..Len(frames[t]) : frames[t][i].cmd.k = k
UsesGlobalConnection ==
    /\ \A t \in Tasks : ctx[t] # NoTask => ConnectionOf(t) = G
    /\ \A x \in UserTxs : txConn[x] \in {NoConn, G}
    /\ \A t \in Tasks : \A i \in 1..Len(frames[t]) :
           frames[t][i].c \in {NoConn, G}

Disconnected(t) == Ended(t, "disconnect") /\ last[t].cmds # <<>>

C9_Stated ==
    \A t \in Tasks :
        (/\ Ended(t, "execute")
         /\ broken[last[t].c] = "acquire"
         /\ Count(last[t].cmds, "error") = 0) => last[t].res = "ok"

BackendCloseRaised(cmds) ==
    /\ Len(cmds) >= 2
    /\ cmds[1] \in {"commit", "rollback"}
    /\ cmds[2] \in {"error", "raise"}

\* C10 as stated: when the backend commit or rollback has raised inside
\* commit() / rollback(), the call has raised, the frame is off the stack,
\* and the acquisition taken at start() is given back: between calls the
\* counter is the number of open frames and connection blocks, and the raw
\* connection is released when that is 0.
C10_Stated ==
    \A t \in Tasks :
        (/\ Ended(t, last[t].op)
         /\ last[t].op \in {"commit", "rollback"}
         /\ BackendCloseRaised(last[t].cmds)) =>
            /\ last[t].res = "raise"
            /\ ~OnStack(last[t].x)
            /\ AllIdle =>
                   /\ counter[last[t].c] = Len(stack[last[t].c]) + Held(last[t].c)
                   /\ counter[last[t].c] = 0 => ~raw[last[t].c]

\* the driver raised (or the task was cancelled) in the backend start()
BackendStartRaised(cmds) ==
    \E i \in 1..(Len(cmds) - 1) : cmds[i] = "start" /\ cmds[i + 1] = "error"

\* C11 as stated: when the backend start() has raised inside start(), the
\* call has raised, the frame is not on the stack, the transaction lock is
\* free, and the acquisition start() took is given back: between calls the
\* counter is the number of open frames and connection blocks.
C11_Stated ==
    \A t \in Tasks :
        (/\ Ended(t, last[t].op)
         /\ last[t].op \in {"start", "tx_enter"}
         /\ BackendStartRaised(last[t].cmds)) =>
            /\ last[t].res = "raise"
            /\ ~OnStack(last[t].x)
            /\ tlock[last[t].c] = Free
            /\ AllIdle =>
                   counter[last[t].c] = Len(stack[last[t].c]) + Held(last[t].c)

\* ---- a decorated function called concurrently ------------------------------
\* @database.transaction() makes one Transaction when the function is
\* decorated (Transaction.__call__); every invocation of the wrapper runs
\* `async with self:` around the body on that same object.  The first task
\* decorates and spawns the second; both invoke the function, whose body
\* inserts the row of its task with a one-shot query.  The driver does not
\* fail.
InBody(t) == scopes[t] # <<>>

NextDecorated ==
    \/ nextTx = 1 /\ NewTransaction(1, FALSE)
    \/ nextTx > 1 /\ ~is_connected /\ Connect(1)
    \/ nextTx > 1 /\ Spawn(1, 2)
    \/ \E t \in Tasks : is_connected /\ ~InBody(t) /\ TxEnter(t, 1)
    \/ \E t \in Tasks : InBody(t) /\ OneShot(t, t)
    \/ \E t \in Tasks : ScopeExit(t)
    \/ \E t \in Tasks : Catch(t)
    \/ \E t \in Tasks : DriverReturns(t)
    \/ \E t \in Tasks : LockWake(t)

SpecDecorated == InitPlain /\ [][NextDecorated]_vars

\* C12 as stated: every invocation of the decorated function ends normally,
\* and once all invocations have finished the stack is empty, the counter is
\* 0, the raw connection is released and every row written is durable.
C12_Stated ==
    /\ \A t \in Tasks : Ended(t, "tx_exit") => last[t].res = "ok"
    /\ (AllIdle /\ \A t \in Tasks : ~InBody(t)) =>
           \A c \in Conns :
               /\ stack[c] = <<>>
               /\ counter[c] = 0 /\ ~raw[c]
               /\ ref[c].wrote \subseteq committed

\* ---- scoped transactions of tasks that share a connection ------------------
\* The first task resolves its connection and spawns the second, which
\* inherits it; each task runs `async with database.transaction():` blocks on
\* a Transaction of its own (transaction t belongs to task t), so both work
\* on the stack of one connection.  The driver does not fail.
NextShared ==
    \/ ~is_connected /\ Connect(1)
    \/ \E t \in Tasks : is_connected /\ nextTx = t /\ NewTransaction(t, FALSE)
    \/ nextTx > 1 /\ Spawn(1, 2)
    \/ \E t \in Tasks : is_connected /\ ~OnStack(t) /\ TxEnter(t, t)
    \/ \E t \in Tasks : ScopeExit(t)
    \/ \E t \in Tasks : Catch(t)
    \/ \E t \in Tasks : DriverReturns(t)
    \/ \E t \in Tasks : LockWake(t)

SpecShared == InitPlain /\ [][NextShared]_vars

\* C13 as stated: whatever the interleaving of the tasks' blocks, no commit()
\* or rollback() fails the assertion that its frame is the top of the stack.
C13_Stated ==
    \A t \in Tasks : Count(last[t].cmds, "assert") = 0

\* the tasks whose query is running on the raw connection of c
Querying(c) ==
    {t \in Tasks : \E i \in 1..Len(frames[t]) :
         /\ frames[t][i].at = "query"
         /\ frames[t][i].c = c}

\* C14 as stated: at most one query is running on the raw connection of a
\* connection at any time.
C14_Stated ==
    \A c \in Conns : Cardinality(Querying(c)) <= 1

\* ---- which connection a task is given ---------------------------------------
\* user code of task t calls Database.connection() in this step (through
\* `async with database.connection()` or a one-shot query)
CallsConnection(t) ==
    /\ frames[t] = <<>> /\ Moved(t)
    /\ last'[t].op \in {"conn_enter", "execute"}
ConnScopes(t) ==
    {scopes[t][i].id : i \in {j \in 1..Len(scopes[t]) : scopes[t][j].k = "conn"}}

\* C15: outside force_rollback, the connection recorded in a task's context
\* never changes once it is there, every call the task makes is given that
\* connection, and every `async with database.connection()` block the task
\* is in, however nested, is a block of that one connection: a task is never
\* associated with more than one connection.
C15_OneConnectionPerTask ==
    [][~force_rollback =>
          \A t \in Tasks :
              /\ ctx[t] \in Conns => ctx'[t] = ctx[t]
              /\ CallsConnection(t) =>
                     (ctx'[t] \in Conns /\ last'[t].c = ctx'[t])
              /\ ConnScopes(t)' \subseteq {ctx'[t]}]_vars

\* a task is inside two nested blocks of its connection, acquired once
C15_Witness ==
    \E t \in Tasks :
        /\ ~force_rollback /\ Len(scopes[t]) = 2
        /\ ConnScopes(t) = {ctx[t]}
        /\ counter[ctx[t]] = 2 /\ raw[ctx[t]]
        /\ last[t].op = "conn_enter" /\ last[t].res = "ok" /\ last[t].cmds = <<>>

\* ---- tasks, their connections and what they see ----------------------------
\* The first task connects and spawns the second, before or after it has
\* resolved a connection of its own; each task writes its own row (row t for
\* task t) with one-shot queries, inside and outside `async with
\* database.connection()` blocks and `async with database.transaction()`
\* blocks on a Transaction of its own.  The driver does not fail.
NextTasks ==
    \/ ~is_connected /\ Connect(1)
    \/ Spawn(1, 2)
    \/ \E t \in Tasks : is_connected /\ nextTx = t /\ NewTransaction(t, FALSE)
    \/ \E t \in Tasks : is_connected /\ ~OnStack(t) /\ TxEnter(t, t)
    \/ \E t \in Tasks : is_connected /\ OneShot(t, t)
    \/ \E t \in Tasks : is_connected /\ ConnEnter(t)
    \/ \E t \in Tasks : ScopeExit(t)
    \/ \E t \in Tasks : Catch(t)
    \/ \E t \in Tasks : DriverReturns(t)
    \/ \E t \in Tasks : LockWake(t)

SpecTasks == InitPlain /\ [][NextTasks]_vars

TxScopes(t) == {i \in 1..Len(scopes[t]) : scopes[t][i].k = "tx"}
\* what a query of task t would read
Reads(t) == Visible(sess[ConnectionOf(t)], committed)

\* tasks with different connections: each connection counts the blocks of
\* its own task only, stacks the frames of its own task only, and holds as
\* uncommitted only what its own task wrote, which the other task does not
\* read
Isolated ==
    \A t, u \in Tasks :
        (t # u /\ ctx[t] \in Conns /\ ctx[u] \in Conns /\ ctx[t] # ctx[u]) =>
            /\ frames[t] = <<>> =>
                   /\ counter[ctx[t]] = Len(scopes[t])
                   /\ Len(stack[ctx[t]]) = Cardinality(TxScopes(t))
                   /\ raw[ctx[t]] <=> scopes[t] # <<>>
            /\ sess[ctx[t]].own \subseteq {t}
            /\ Reads(u) \cap (sess[ctx[t]].own \ committed) = {}

\* C16: a task whose context holds no connection is given, at its first
\* call, a connection that no other task has recorded, with its counter at
\* 0, its stack empty and no raw connection yet (so two tasks spawned from a
\* scope without a connection hold different connections); and tasks with
\* different connections are isolated: an uncommitted write of one task's
\* transaction is not read by the other.
C16_SiblingsGetOwnConnections ==
    [][~force_rollback =>
          /\ \A t \in Tasks :
                 (ctx[t] = NoConn /\ ctx'[t] # NoConn) =>
                     /\ ctx'[t] \in Conns
                     /\ \A u \in Tasks \ {t} : ctx[u] # ctx'[t]
                     /\ counter[ctx'[t]] = 0
                     /\ stack[ctx'[t]] = <<>>
                     /\ ~raw[ctx'[t]]
          /\ Isolated']_vars

\* both tasks started without a connection; the first has written its row
\* inside an open transaction, the second holds its own raw connection in a
\* connection block and reads nothing
C16_Witness ==
    /\ ctx[1] \in Conns /\ ctx[2] \in Conns /\ ctx[1] # ctx[2]
    /\ AllIdle
    /\ stack[ctx[1]] = <<1>> /\ sess[ctx[1]].own = {1} /\ committed = {}
    /\ scopes[2] = <<[k |-> "conn", id |-> ctx[2]]>> /\ raw[ctx[2]]
    /\ Reads(2) = {} /\ Reads(1) = {1}

\* the query task t awaits returns in this step
QueryReturns(t) ==
    /\ AwaitsAt(t, "Database.execute", "query")
    /\ frames'[t] # frames[t]
\* the spawned task has the connection of the first task in its context
Inherited == ctx[2] \in Conns /\ ctx[2] = ctx[1]

C18_Stated ==
    [][~force_rollback =>
          ((CallsConnection(2) /\ ctx[1] \in Conns) => last'[2].c # ctx[1])]_vars

\* ---- connecting twice, disconnecting twice ---------------------------------
\* One task connects and disconnects a Database in any order and number,
\* with one-shot queries in between; the driver may fail once.
NextLifecycle ==
    \/ Connect(1)
    \/ Disconnect(1)
    \/ \E r \in Rows : is_connected /\ OneShot(1, r)
    \/ Catch(1)
    \/ DriverReturns(1)
    \/ DriverRaises(1)

SpecLifecycle == InitPlain /\ [][NextLifecycle]_vars

\* user code of task t calls the facade method op in this step
CallsOp(t, op) == frames[t] = <<>> /\ Moved(t) /\ last'[t].op = op

\* C19 as stated: connect() on a connected Database succeeds and leaves it
\* connected with its pool running; disconnect() on a disconnected Database
\* succeeds and leaves it disconnected.
C19_Stated ==
    [][\A t \in Tasks :
          /\ (CallsOp(t, "connect") /\ is_connected) =>
                 (last'[t].res # "raise" /\ is_connected' /\ pool' = "up")
          /\ (CallsOp(t, "disconnect") /\ ~is_connected) =>
                 (last'[t].res # "raise" /\ ~is_connected')]_vars

\* ---- one-shot queries -------------------------------------------------------
\* One task of a connected database runs one-shot queries outside and inside
\* `async with database.connection()` blocks and transactions it starts and
\* closes by hand; the driver may fail once, in a one-shot query (in its
\* acquire, in the query itself or in its release).
NextOneShot ==
    \/ ~is_connected /\ Connect(1)
    \/ is_connected /\ NewTransaction(1, FALSE)
    \/ is_connected /\ ConnEnter(1)
    \/ ScopeExit(1)
    \/ \E x \in Txs : is_connected /\ ~OnStack(x) /\ TxStart(1, x)
    \/ \E x \in Txs : is_connected /\ TxCommit(1, x)
    \/ \E x \in Txs : is_connected /\ TxRollback(1, x)
    \/ is_connected /\ OneShot(1, 1)
    \/ Catch(1)
    \/ DriverReturns(1)
    \/ last[1].op = "execute" /\ DriverRaises(1)

SpecOneShot == InitPlain /\ [][NextOneShot]_vars

\* C20: when a one-shot query has returned or raised, on a connection whose
\* backend acquire() and release() have not raised, the counter is back at
\* the number of open frames and connection blocks, its value before the
\* call; if that is 0 the call acquired the raw connection first, released
\* it last and it is not held; otherwise (inside an open transaction or
\* connection block) the call asked neither acquire nor release and the raw
\* connection is still held.
C20_OneShotEntersAndExits ==
    \A t \in Tasks :
        LET c == last[t].c
            cmds == last[t].cmds
        IN (Ended(t, "execute") /\ AllIdle /\ broken[c] = "") =>
               /\ counter[c] = Len(stack[c]) + Held(c)
               /\ Count(cmds, "execute") = 1
               /\ IF counter[c] = 0
                  THEN /\ cmds[1] = "acquire" /\ cmds[Len(cmds)] = "release"
                       /\ Count(cmds, "acquire") = 1
                       /\ Count(cmds, "release") = 1
                       /\ ~raw[c]
                  ELSE /\ Count(cmds, "acquire") = 0
                       /\ Count(cmds, "release") = 0
                       /\ raw[c]

\* the query of a one-shot call outside every block has raised: the raw
\* connection was acquired for it and released after it
C20_Witness ==
    /\ Ended(1, "execute") /\ last[1].res = "raise"
    /\ last[1].cmds = <<"acquire", "execute", "error", "release">>
    /\ broken[last[1].c] = ""
    /\ counter[last[1].c] = 0 /\ ~raw[last[1].c]

\* ---- what is kept of a task and of a transaction ----------------------------
\* C21 as stated: a task has a recorded connection only while it holds that
\* connection: a task that is in no call and in no `async with` block has
\* none (also when no driver call has failed).
C21_Stated ==
    (~force_rollback /\ fails = 0) =>
        \A t \in Tasks :
            (frames[t] = <<>> /\ scopes[t] = <<>>) => ctx[t] \notin Conns

\* C22 as stated: a Transaction is bound to its backend transaction exactly
\* from the completion of start() until its commit() or rollback(), that is
\* exactly while it is a frame of its connection's stack.
C22_Stated ==
    \A x \in UserTxs : Created(x) <=> OnStack(x)


\* ---- streams --------------------------------------------------------------
\* One task streams the rows of a query with Database.iterate on a connected
\* database, outside or inside an `async with database.connection()` block
\* (entered and left only while no stream is open); it pulls rows to the end
\* of the stream, or closes the stream early, or is cancelled in a driver call.
Streaming(t) == gen[t].st \in {"new", "open"}

NextIterate ==
    \/ ~is_connected /\ Connect(1)
    \/ is_connected /\ ~Streaming(1) /\ ConnEnter(1)
    \/ ~Streaming(1) /\ ScopeExit(1)
    \/ \E n \in 0..MaxRows : is_connected /\ Iterate(1, n)
    \/ IterNext(1)
    \/ IterClose(1)
    \/ Finalize(1)
    \/ Catch(1)
    \/ DriverReturns(1)
    \/ DriverRaises(1)

SpecIterate == InitPlain /\ [][NextIterate]_vars

\* C23 as stated: Database.iterate acquires its connection when the consumer
\* pulls the first row, keeps it while rows are being consumed, and has
\* released it (the counter back to what it was, the driver cursor closed)
\* once the consumer has exhausted the stream or closed it (also when no
\* driver call has failed).
C23_Stated ==
    (fails = 0 /\ frames[1] = <<>>) =>
        /\ gen[1].st = "new" => gen[1].cursor = "none"
        /\ gen[1].st = "open" =>
               /\ counter[gen[1].c] = gen[1].prior + 1
               /\ raw[gen[1].c]
               /\ gen[1].cursor = "open"
        /\ (gen[1].st = "done" /\ last[1].op \in {"iter_next", "iter_close"}) =>
               /\ gen[1].c # NoConn => counter[gen[1].c] = gen[1].prior
               /\ gen[1].cursor # "open"

\* ---- the functions, each applied to the arguments the run drew -------------
NextPure ==
    \/ FetchOne
    \/ FetchVal
    \/ Compile
    \/ GetItem
    \/ SslOption
    \/ Repr
    \/ Acquire
    \/ Release
    \/ BackendCall

SpecPure == InitPure /\ [][NextPure]_vars

Applied(fn) == pure.fn = fn /\ Len(pure.out) = 1

C25_Stated ==
    (/\ Applied("compile")
     /\ pure.args.compiled.ddl /\ pure.args.compiled.has_params) =>
        pure.out[1] = [query |-> pure.args.compiled.string, args |-> <<>>,
                       result_map |-> None]

C27_Stated ==
    (Applied("ssl") /\ pure.args.ssl # None) =>
        LET ssl == pure.args.ssl.v
        IN CASE lower(ssl) = "true" -> pure.out[1] = Py("bool", "True")
             [] lower(ssl) = "false" -> pure.out[1] = Py("bool", "False")
             [] OTHER -> pure.out[1] \in {Py("str", ssl), Py("str", lower(ssl))}

\* C28 as stated: the repr of a DatabaseURL with a password does not contain
\* the password, is the same whatever the (non-empty) password is, and is the
\* url with ******** for the password and every other piece as written.
C28_Stated ==
    (Applied("repr") /\ pure.args.password \notin {Absent, ""}) =>
        /\ \A i \in 1..Len(pure.out[1]) : pure.out[1][i] # pure.args.password
        /\ \A p \in {"password", "secret"} :
               DatabaseURL_repr([pure.args EXCEPT !.password = p]) = pure.out[1]
        /\ pure.out[1] = Url(pure.args.username, "********", pure.args.host,
                             pure.args.port)

\* C29 (each Transaction object being on the stack at most once): a frame
\* started on an empty stack is a root frame: its start issues
\* BEGIN and its commit / rollback issue COMMIT / ROLLBACK; a frame started
\* on a non-empty stack issues SAVEPOINT n with a name n that no savepoint of
\* the connection and no other frame has, and its commit issues RELEASE
\* SAVEPOINT n and its rollback ROLLBACK TO SAVEPOINT n with that same n,
\* a savepoint the session holds while no driver call has failed.
\* (The frame that is being closed has left the stack: it was started on an
\* empty stack exactly when the stack is empty now.)
C29_RootBeginsSavepointsAbove ==
    \A t \in Tasks :
        frames[t] # <<>> =>
            LET f == Top(Here, t)
                saves == sess[f.c].saves
                named == /\ f.cmd.n = savepoint_name[f.x]
                         /\ fails = 0 =>
                                \E i \in 1..Len(saves) : saves[i].name = f.cmd.n
            IN /\ (f.fn = "Transaction.start" /\ f.at = "start") =>
                      IF stack[f.c] = <<>>
                      THEN f.cmd.k = "BEGIN" /\ is_root[f.x]
                      ELSE /\ f.cmd.k = "SAVEPOINT" /\ ~is_root[f.x]
                           /\ f.cmd.n = savepoint_name[f.x]
                           /\ \A i \in 1..Len(saves) : saves[i].name # f.cmd.n
                           /\ \A i \in 1..Len(stack[f.c]) :
                                  savepoint_name[stack[f.c][i]] # f.cmd.n
               /\ (f.fn = "Transaction.commit" /\ f.at = "close") =>
                      IF stack[f.c] = <<>> THEN f.cmd.k = "COMMIT"
                      ELSE f.cmd.k = "RELEASE" /\ named
               /\ (f.fn = "Transaction.rollback" /\ f.at = "close") =>
                      IF stack[f.c] = <<>> THEN f.cmd.k = "ROLLBACK"
                      ELSE f.cmd.k = "ROLLBACK TO" /\ named

\* a frame above a root frame that was itself rolled back to its savepoint
\* is being rolled back to a savepoint of its own
C29_Witness ==
    /\ frames[1] # <<>>
    /\ Top(Here, 1).fn = "Transaction.rollback" /\ Top(Here, 1).at = "close"
    /\ Top(Here, 1).cmd.k = "ROLLBACK TO"
    /\ Len(stack[1]) = 1 /\ is_root[stack[1][1]]
    /\ Len(sess[1].saves) = 2

\* C30 as stated: whenever the transaction stack of a connection is not
\* empty, its bottom frame is a root frame and every frame above it is a
\* savepoint frame, also when one Transaction object is started more than
\* once.
C30_Stated ==
    \A c \in Conns :
        stack[c] # <<>> =>
            /\ is_root[stack[c][1]]
            /\ \A i \in 2..Len(stack[c]) : ~is_root[stack[c][i]]

\* C31: in every state where neither the connection lock nor the transaction
\* lock of a connection is held and no backend call has failed, the
\* connection's counter is at least the length of its transaction stack, and
\* its raw connection is held whenever the stack is not empty.
C31_FramesHoldAcquisitions ==
    \A c \in Conns :
        (clock[c] = Free /\ tlock[c] = Free /\ fails = 0) =>
            /\ counter[c] >= Len(stack[c])
            /\ stack[c] # <<>> => raw[c]

\* two frames are open on a connection no `async with connection` block
\* holds: the counter is the two acquisitions of the frames
C31_Witness ==
    /\ fails = 0 /\ clock[1] = Free /\ tlock[1] = Free
    /\ Len(stack[1]) = 2 /\ counter[1] = 2 /\ raw[1]
    /\ scopes[1] = <<>> /\ frames[1] = <<>>

\* ---- enter and exit called in any order -----------------------------------
\* The tasks of a connected database enter `async with database.connection()`
\* blocks, leave them, and call __aexit__ of their connection by hand, whether
\* or not an enter is there for it to match.
NextCalls ==
    \/ ~is_connected /\ Connect(1)
    \/ Spawn(1, 2)
    \/ \E t \in Tasks : is_connected /\ ConnEnter(t)
    \/ \E t \in Tasks : is_connected /\ ConnExit(t)
    \/ \E t \in Tasks : ScopeExit(t)
    \/ \E t \in Tasks : Catch(t)
    \/ \E t \in Tasks : DriverReturns(t)
    \/ \E t \in Tasks : DriverRaises(t)
    \/ \E t \in Tasks : LockWake(t)

SpecCalls == InitPlain /\ [][NextCalls]_vars

\* C32 as stated: whatever the sequence of enter and exit calls on a
\* connection, an exit with no matching enter included, the connection's
\* counter is never below 0.
C32_Stated == \A c \in Conns : counter[c] >= 0

\* ---- the locks of one connection ------------------------------------------
\* The first task resolves its connection and spawns the second, which
\* inherits it; both enter and leave `async with database.connection()` and
\* `async with database.transaction()` blocks (start on the way in, commit or
\* rollback on the way out) on a Transaction of their own.  The driver does
\* not fail.
NextLocks ==
    \/ ~is_connected /\ Connect(1)
    \/ \E t \in Tasks : is_connected /\ nextTx = t /\ NewTransaction(t, FALSE)
    \/ nextTx > 1 /\ Spawn(1, 2)
    \/ \E t \in Tasks : is_connected /\ ConnEnter(t)
    \/ \E t \in Tasks : is_connected /\ ~OnStack(t) /\ TxEnter(t, t)
    \/ \E t \in Tasks : UserRaise(t)
    \/ \E t \in Tasks : ScopeExit(t)
    \/ \E t \in Tasks : DriverReturns(t)
    \/ \E t \in Tasks : LockWake(t)

\* Every driver call returns: weak fairness of DriverReturns(t), which is
\* enabled exactly while the task awaits the driver.  asyncio.Lock wakes its
\* waiters in the order they came, so a task that waits for a lock that is
\* freed again and again gets it: strong fairness of LockWake(t), which is
\* enabled exactly while the lock the task waits for is free.  (WF_vars and
\* SF_vars, with ENABLED written out as these state predicates.)
SpecLocks ==
    /\ InitPlain /\ [][NextLocks]_vars
    /\ \A t \in Tasks :
           /\ []<>(~(AwaitsDriver(t) /\ PoolDrained(t)))
                  \/ []<><<DriverReturns(t)>>_vars
           /\ <>[](~LockFree(t)) \/ []<><<LockWake(t)>>_vars

\* the task waits for the connection lock / the transaction lock of c
WaitsFor(t, c) ==
    IF Suspended(t) /\ Top(Here, t).at = "lock" /\ Top(Here, t).c = c
    THEN IF Top(Here, t).fn \in {"Connection.__aenter__", "Connection.__aexit__"}
         THEN "connection" ELSE "transaction"
    ELSE ""

\* C33: on one connection, no task waits for the transaction lock while it
\* holds the connection lock, and no task waits for a lock it holds itself;
\* so, every driver call returning, every call a task is suspended in
\* completes, and a lock that is held is free again later.
C33_NoDeadlock ==
    /\ [](\A t \in Tasks, c \in Conns :
             /\ WaitsFor(t, c) = "transaction" => clock[c] # t /\ tlock[c] # t
             /\ WaitsFor(t, c) = "connection" => clock[c] # t)
    /\ \A t \in Tasks : Suspended(t) ~> ~Suspended(t)
    /\ \A c \in Conns : clock[c] # Free ~> clock[c] = Free
    /\ \A c \in Conns : tlock[c] # Free ~> tlock[c] = Free

\* the second task waits for the transaction lock of the shared connection
\* while the first holds both locks, suspended in the backend acquire()
C33_Witness ==
    /\ clock[1] = 1 /\ tlock[1] = 1
    /\ Suspended(1) /\ Top(Here, 1).at = "acquire"
    /\ WaitsFor(2, 1) = "transaction"

\* the task ran in this step
Ran(t) ==
    \/ frames'[t] # frames[t] \/ last'[t] # last[t]
    \/ scopes'[t] # scopes[t] \/ exc'[t] # exc[t]

\* C34: a step of a call on one connection (enter, exit, transaction start,
\* commit, rollback, a query) leaves the counter, the transaction stack, the
\* two locks and the raw connection of every other connection as they were,
\* and a call that waits for a lock waits for a lock of its own connection.
C34_ConnectionsAreIndependent ==
    [][/\ \A c \in Conns :
             (\/ counter'[c] # counter[c] \/ stack'[c] # stack[c]
              \/ clock'[c] # clock[c] \/ tlock'[c] # tlock[c]
              \/ raw'[c] # raw[c])
                 => \E t \in Tasks : Ran(t) /\ last'[t].c = c
       /\ \A t \in Tasks :
             (frames'[t] # <<>> /\ frames'[t][Len(frames'[t])].at = "lock")
                 => frames'[t][Len(frames'[t])].c = last'[t].c]_vars

\* each task holds the raw connection of a connection of its own, the first
\* with a frame open on it, while the second is suspended in a call on its own
C34_Witness ==
    /\ ctx[1] = 1 /\ ctx[2] = 2
    /\ raw[1] /\ raw[2]
    /\ stack[1] # <<>>
    /\ Suspended(2) /\ last[2].c = 2 /\ clock[2] = 2

\* C35 as stated: on every backend, acquire() of a connection that holds a raw
\* connection and release() of one that holds none fail with an error, the
\* held raw connection stays as it was and the pool is not asked for anything.
C35_Stated ==
    /\ (Applied("acquire") /\ pure.args.connection) =>
           /\ pure.out[1].error # ""
           /\ pure.out[1].connection /\ pure.out[1].taken = 0
    /\ (Applied("release") /\ ~pure.args.connection) =>
           /\ pure.out[1].error # ""
           /\ ~pure.out[1].connection /\ pure.out[1].taken = 0

\* C36 as stated: every cursor a backend method opens (fetch_all, fetch_one,
\* execute, execute_many, iterate, transaction start / commit / rollback) is
\* closed when the method exits, whether it returned or raised.
C36_Stated == Applied("run") => pure.out[1].open = 0

\* C37: execute_many executes its queries one at a time in the order of the
\* list; when the execution of query k fails the call raises, the queries
\* before k have been executed and stay so (nothing else is sent to the
\* driver), and no query from k on is executed.
C37_ExecuteManyStopsAtFirstFailure ==
    (Applied("run") /\ pure.args.op = "execute_many") =>
        LET body == Body(pure.args.backend, pure.args.op, pure.args.root,
                         pure.args.n)
            f == pure.args.fail_at
            later == {body[i].q : i \in {j \in 1..Len(body) :
                                            j >= f /\ body[j].k = "execute"}}
            k == IF f = 0 \/ later = {} THEN pure.args.n + 1
                 ELSE CHOOSE q \in later : \A r \in later : q <= r
        IN /\ pure.out[1].ran = [i \in 1..(k - 1) |-> i]
           /\ pure.out[1].res = IF f = 0 THEN "ok" ELSE "raise"

\* the second of three queries failed: the first one was executed
C37_Witness ==
    /\ Applied("run") /\ pure.args.op = "execute_many" /\ pure.args.n = 3
    /\ pure.args.fail_at # 0
    /\ Body(pure.args.backend, pure.args.op, pure.args.root,
            pure.args.n)[pure.args.fail_at] = Stmt("execute", 2)
    /\ pure.out[1].ran = <<1>> /\ pure.out[1].res = "raise"

\* the references to parameters in a statement, and the parameter of a key
Refs(string) == {i \in 1..Len(string) : string[i] \in {"%(a)s", "%(b)s"}}
KeyAt(string, i) == IF string[i] = "%(a)s" THEN "a" ELSE "b"
IndexOf(params, key) == CHOOSE j \in 1..Len(params) : params[j].key = key

\* C38 as stated: for every backend and every statement that is not DDL,
\* whether its parameters are referenced once or several times, the emitted
\* SQL has as many placeholders as the emitted args has entries (for ?, the
\* occurrences; for $i and %(key)s, the distinct placeholders), and the
\* placeholder at each reference is the one of the arg that carries the value
\* of the referenced parameter (as it is or bind-processed).
C38_Stated ==
    (Applied("compile") /\ ~pure.args.compiled.ddl) =>
        LET b == pure.args.backend
            string == pure.args.compiled.string
            params == pure.args.compiled.params
            query == pure.out[1].query
            args == pure.out[1].args
            carries(v, key) ==
                LET val == params[IndexOf(params, key)].val
                IN v = val \/ v = to_str(val)
        IN CASE b \in {"sqlite", "mssql"} ->
                  /\ Len(args) = Cardinality(Refs(string))
                  /\ \A i \in Refs(string) :
                         /\ query[i] = "?"
                         /\ carries(args[Cardinality({r \in Refs(string) : r <= i})],
                                    KeyAt(string, i))
             [] b \in {"asyncpg", "postgres"} ->
                  /\ Len(args) = Cardinality({query[i] : i \in Refs(string)})
                  /\ \A i \in Refs(string) :
                         /\ query[i] \in {"$1", "$2"}
                         /\ (IF query[i] = "$1" THEN 1 ELSE 2) <= Len(args)
                         /\ carries(args[IF query[i] = "$1" THEN 1 ELSE 2],
                                    KeyAt(string, i))
             [] OTHER ->
                  /\ Len(args) = Cardinality({query[i] : i \in Refs(string)})
                  /\ \A i \in Refs(string) :
                         /\ query[i] = string[i]
                         /\ \E j \in 1..Len(args) :
                                /\ args[j].key = KeyAt(string, i)
                                /\ carries(args[j].val, KeyAt(string, i))

\* C39 as stated: in every backend's compilation of a statement that is not
\* DDL, the value emitted for a parameter that has a bind processor is
\* processor(value), and the value emitted for any other parameter is the
\* value itself.
C39_Stated ==
    (Applied("compile") /\ ~pure.args.compiled.ddl) =>
        LET b == pure.args.backend
            compiled == pure.args.compiled
            args == pure.out[1].args
            emitted(key) ==
                CASE b \in {"asyncpg", "postgres"} ->
                         args[IndexOf(Sorted(compiled.params), key)]
                  [] b \in {"sqlite", "mssql"} ->
                         args[IndexOf(compiled.params, key)]
                  [] OTHER -> args[IndexOf(args, key)].val
        IN \A i \in 1..Len(compiled.params) :
               emitted(compiled.params[i].key)
                   = BindProcessed(compiled, compiled.params[i])
====
